---------------------------- MODULE Spec2Model ----------------------------
(***************************************************************************)
(* A model of the seekable bzip2 decoder of src/bzip2.h (class BZ2Reader   *)
(* over class BitReader).                                                  *)
(*                                                                         *)
(* The decoder facade (read, seek, tell, size, blockOffsets,               *)
(* setBlockOffsets), the block loop (decodeBzip2, decodeStream,            *)
(* readNextBlock), the Burrows-Wheeler preparation, the RLE2 output loop,  *)
(* the output buffer and the CRC32 arithmetic are translated from the      *)
(* code.  The entropy layer of a data block (Huffman tables, selectors,    *)
(* MTF and RUNA/RUNB symbols) is represented by its result: the file       *)
(* gives, for every data block, the bytes the symbol pass stores in dbuf,  *)
(* origPtr, the expected CRC, and the number of bits the block occupies.   *)
(*                                                                         *)
(* A C++ exception is modelled by the field err of the decoder record: a   *)
(* step that throws sets err and every later step of the same call is      *)
(* skipped, so the members keep the values they had when the exception     *)
(* left the call.                                                          *)
(***************************************************************************)
EXTENDS Integers, Sequences, FiniteSets, TLC

(***************************************************************************)
(* 32-bit unsigned values (uint32_t) are tuples of 32 bits, most           *)
(* significant bit first: TLC's integers are too narrow for them.          *)
(***************************************************************************)
Bit32 == 1..32

Zero32 == [i \in Bit32 |-> 0]

Ones32 == [i \in Bit32 |-> 1]

Xor32(a, b) == [i \in Bit32 |-> (a[i] + b[i]) % 2]

Not32(a) == [i \in Bit32 |-> 1 - a[i]]

\* a << n
Shl32(a, n) == [i \in Bit32 |-> IF i + n <= 32 THEN a[i + n] ELSE 0]

\* ( a << 1 ) | ( a >> 31 )
RotL1(a) == [i \in Bit32 |-> IF i < 32 THEN a[i + 1] ELSE a[1]]

\* the value of the bits a[lo..hi] as a number
RECURSIVE BitsValue(_, _, _)
BitsValue(a, lo, hi) ==
    IF hi < lo THEN 0 ELSE 2 * BitsValue(a, lo, hi - 1) + a[hi]

\* the n-bit big-endian representation of v as a tuple of n bits
BitsOf(v, n) == [i \in 1..n |-> (v \div (2 ^ (n - i))) % 2]

\* getBits( 32 ) over the four bytes b (big-endian, MSB first)
U32(b) == [i \in Bit32 |-> BitsOf(b[((i - 1) \div 8) + 1], 8)[((i - 1) % 8) + 1]]

\* the polynomial 0x04c11db7
CRC32_POLY == U32(<<4, 193, 29, 183>>)

\* c = c & 0x80000000 ? ( c << 1 ) ^ 0x04c11db7 : ( c << 1 ), j times
RECURSIVE CrcShift(_, _)
CrcShift(c, j) ==
    IF j = 0 THEN c
    ELSE CrcShift(IF c[1] = 1 THEN Xor32(Shl32(c, 1), CRC32_POLY) ELSE Shl32(c, 1),
                  j - 1)

\* createCRC32LookupTable( littleEndian = false )
CRC32_TABLE == [i \in 0..255 |-> CrcShift(Shl32(U32(<<0, 0, 0, i>>), 24), 8)]

\* ( crc << 8 ) ^ CRC32_TABLE[( crc >> 24 ) ^ outbyte]
CrcUpdate(crc, outbyte) ==
    LET top == [i \in 1..8 |-> (crc[i] + BitsOf(outbyte, 8)[i]) % 2]
    IN  Xor32(Shl32(crc, 8), CRC32_TABLE[BitsValue(top, 1, 8)])

\* the bzip2 CRC of a block of bytes, computed from the bytes alone
RECURSIVE CrcOver(_, _)
CrcOver(bytes, n) ==
    IF n = 0 THEN Ones32 ELSE CrcUpdate(CrcOver(bytes, n - 1), bytes[n])

BlockCrc(bytes) == Not32(CrcOver(bytes, Len(bytes)))


(***************************************************************************)
(* The input file.  A file is a sequence of items in file order:           *)
(*   hdr   the stream header "BZh" and the level digit (32 bits);          *)
(*   data  a data block: magic 0x314159265359, the expected CRC (crc, the  *)
(*         four bytes as stored), origPtr, the block's tables (hbits bits  *)
(*         from the magic to the end of readBlockHeader) and its symbols   *)
(*         (dbits bits, read by readBlockData), which decode to dbuf;      *)
(*         plain is the text the block was compressed from;                *)
(*   eos   an end-of-stream block: magic 0x177245385090 and the stream CRC *)
(*         (80 bits), followed by the padding to the next byte.            *)
(***************************************************************************)
Hdr(level) == [type |-> "hdr", level |-> level]

Data(crc, origPtr, dbuf, hbits, dbits, plain) ==
    [type |-> "data", crc |-> crc, origPtr |-> origPtr, dbuf |-> dbuf,
     hbits |-> hbits, dbits |-> dbits, plain |-> plain]

Eos(crc) == [type |-> "eos", crc |-> crc]

\* "A"
BlockA == Data(<<129, 176, 45, 139>>, 0, <<65>>, 176, 3, <<65>>)

\* "B"
BlockB == Data(<<140, 243, 11, 82>>, 0, <<66>>, 176, 3, <<66>>)

\* two different bytes, no run
Block12 == Data(<<36, 211, 97, 48>>, 0, <<2, 1>>, 176, 4, <<1, 2>>)

\* six equal bytes: 7 7 7 7 and the repeat count 2 as the last item of the block
BlockRun2 ==
    Data(<<79, 191, 221, 112>>, 4, <<7, 7, 7, 7, 2>>, 177, 7, <<7, 7, 7, 7, 7, 7>>)

\* seven equal bytes and one more: 7 7 7 7, the repeat count 3, then 9
BlockRun3Mid ==
    Data(<<78, 142, 116, 80>>, 4, <<7, 7, 7, 7, 9, 3>>, 188, 9,
         <<7, 7, 7, 7, 7, 7, 7, 9>>)

\* 4 4 4 4, the repeat count 0, then 4 again
BlockRun0Cont ==
    Data(<<181, 172, 110, 140>>, 4, <<4, 4, 4, 4, 4, 0>>, 181, 9, <<4, 4, 4, 4, 4>>)

\* the block with the last bit of its stored CRC flipped
CorruptCrc(item) == [item EXCEPT !.crc[4] = IF @ % 2 = 0 THEN @ + 1 ELSE @ - 1]

FILES ==
    << \* 1: one stream, one block without a run
       << Hdr(9), Block12, Eos(<<36, 211, 97, 48>>) >>,
       \* 2: one stream whose only block ends with a repeat run
       << Hdr(9), BlockRun2, Eos(<<79, 191, 221, 112>>) >>,
       \* 3: one stream, two blocks, a run in the middle of the first
       << Hdr(1), BlockRun3Mid, BlockA, Eos(<<28, 172, 197, 43>>) >>,
       \* 4: one stream, two blocks, the first ends with a repeat run
       << Hdr(9), BlockRun2, Block12, Eos(<<187, 172, 219, 208>>) >>,
       \* 5: two streams, "A" and "B"
       << Hdr(9), BlockA, Eos(<<129, 176, 45, 139>>),
          Hdr(9), BlockB, Eos(<<140, 243, 11, 82>>) >>,
       \* 6: two streams, the first ends with a repeat run
       << Hdr(9), BlockRun2, Eos(<<79, 191, 221, 112>>),
          Hdr(5), Block12, Eos(<<36, 211, 97, 48>>) >>,
       \* 7: an empty stream followed by a stream with a repeat count 0
       << Hdr(9), Eos(<<0, 0, 0, 0>>),
          Hdr(9), BlockRun0Cont, Eos(<<181, 172, 110, 140>>) >>,
       \* 8: the stored CRC of the first data block is corrupted
       << Hdr(9), CorruptCrc(Block12), Eos(<<36, 211, 97, 48>>) >>,
       \* 9: the stored CRC of the second of three data blocks is corrupted
       << Hdr(9), BlockA, CorruptCrc(BlockB), Block12,
          Eos(<<59, 245, 193, 187>>) >>,
       \* 10: the stored stream CRC of the only stream is corrupted
       << Hdr(9), Block12, CorruptCrc(Eos(<<36, 211, 97, 48>>)) >>,
       \* 11: the stored stream CRC of the first of two streams is corrupted
       << Hdr(9), BlockA, CorruptCrc(Eos(<<129, 176, 45, 139>>)),
          Hdr(9), BlockB, Eos(<<140, 243, 11, 82>>) >> >>

\* the files whose stored CRCs are those of their contents
VALID_FILES == 1..7

\* the bit offset at which item i of file f starts, and the bits it occupies;
\* the padding after an end-of-stream block depends on where the block starts
RECURSIVE ItemStart(_, _)
ItemBits(f, i) ==
    CASE f[i].type = "hdr"  -> 32
      [] f[i].type = "data" -> f[i].hbits + f[i].dbits
      [] f[i].type = "eos"  -> 80 + ((8 - ((ItemStart(f, i) + 80) % 8)) % 8)

ItemStart(f, i) == IF i = 1 THEN 0 ELSE ItemStart(f, i - 1) + ItemBits(f, i - 1)

\* BitReader::size(): m_fileSizeBytes * 8
BitReaderSize(f) == ItemStart(f, Len(f)) + ItemBits(f, Len(f))

\* the item that starts at bit offset p, 0 when none does
ItemAt(f, p) ==
    IF \E i \in 1..Len(f) : ItemStart(f, i) = p
    THEN CHOOSE i \in 1..Len(f) : ItemStart(f, i) = p
    ELSE 0

(***************************************************************************)
(* Bounds of the model.                                                    *)
(***************************************************************************)
\* the capacity of m_decodedBuffer (4096 in the source), scaled to the size
\* of the model's blocks so that the buffer fills up within a block; it
\* stays larger than the longest repeat run of the files, as 4096 > 255
IOBUF_SIZE == 4

\* read budgets are 1..MaxBudget, the decoded size of the file, and SIZE_MAX
MaxBudget == 2

\* the number of seek, blockOffsets and setBlockOffsets calls in a run
MaxCalls == 2

\* std::numeric_limits<size_t>::max(), the default budget ("no limit"); the
\* model's integers are 32 bits wide, so it is the largest of them
SIZE_MAX == 2147483647

\* header.bwdata.dbuf.resize( 900000, 0 )
DBUF_SIZE == 900000

Min(a, b) == IF a < b THEN a ELSE b

Max(a, b) == IF a > b THEN a ELSE b

\* "auto x = v; ..." of the source: the rest K of a function body, run with the
\* local x bound to the value v
With(v, K(_)) == K(v)


(***************************************************************************)
(* The decoder.  A decoder is a record of the members of BZ2Reader         *)
(* (m_bitReader is represented by bitPos, the value of its tell(), and     *)
(* m_decodedBufferPos by the length of m_decodedBuffer), of the result of  *)
(* the call in progress (ret, err) and of what an observer of the call     *)
(* sees:                                                                   *)
(*   sink     the bytes the current call has written to the caller's sink; *)
(*   parsed   the items whose block header was parsed, in order;           *)
(*   folds    the data blocks whose CRC was folded into the stream CRC;    *)
(*   emitted  the bytes put into m_decodedBuffer since the last block      *)
(*            header was parsed.                                           *)
(***************************************************************************)
\* BurrowsWheelerTransformData as default-initialised in a BlockHeader; item
\* is the file item the header was parsed from
NewHeader ==
    [item |-> 0, origPtr |-> 0, byteCount |-> <<>>, writePos |-> 0, writeRun |-> 0,
     writeCount |-> 0, writeCurrent |-> 0, dataCRC |-> Zero32,
     headerCRC |-> Zero32, dbuf |-> <<>>]

NewReader ==
    [bitPos |-> 0,
     m_lastHeader |-> NewHeader,
     m_decodedBuffer |-> <<>>,
     m_outputFileDescriptor |-> -1,
     m_outputBuffer |-> FALSE,
     m_outputBufferSize |-> 0,
     m_outputBufferWritten |-> 0,
     m_blockSize100k |-> 0,
     m_streamCRC |-> Zero32,
     m_calculatedStreamCRC |-> Zero32,
     m_blockToDataOffsetsComplete |-> FALSE,
     m_decodedBytesCount |-> 0,
     m_atEndOfStream |-> FALSE,
     m_atEndOfFile |-> FALSE,
     m_blockToDataOffsets |-> {},
     ret |-> 0, err |-> "none",
     sink |-> <<>>, parsed |-> <<>>, folds |-> <<>>, emitted |-> 0]

Throw(d, e) == [d EXCEPT !.err = e]

Ok(d) == d.err = "none"

\* BitReader::eof()
BitReaderEof(f, d) == d.bitPos >= BitReaderSize(f)

\* BZ2Reader::eof()
Eof(d) == d.m_atEndOfFile

\* BZ2Reader::eos()
Eos_(d) == d.m_atEndOfStream

\* BZ2Reader::tell()
Tell(d) == d.m_decodedBytesCount

\* m_blockToDataOffsets.rbegin()->second: the value at the largest key
LastValue(map) ==
    (CHOOSE e \in map : \A o \in map : o[1] <= e[1])[2]

\* BZ2Reader::size(): the result, or the exception it throws
Size(d) ==
    IF ~d.m_blockToDataOffsetsComplete
    THEN [err |-> "invalid_argument", ret |-> 0]
    ELSE [err |-> "none", ret |-> LastValue(d.m_blockToDataOffsets)]

\* std::map::insert: an existing key keeps its value
MapInsert(map, key, value) ==
    IF \E e \in map : e[1] = key THEN map ELSE map \cup {<<key, value>>}

\* flushOutputBuffer as it would be without "m_decodedBytesCount +=
\* nBytesFlushed": the bytes leave the buffer uncounted
FlushOutputBufferUncounted(d, maxBytesToFlush) ==
    With(Min(Len(d.m_decodedBuffer), maxBytesToFlush), LAMBDA nBytesToFlush :
    With(IF d.m_outputBuffer
         THEN IF d.m_outputBufferWritten <= d.m_outputBufferSize
              THEN Min(nBytesToFlush, d.m_outputBufferSize - d.m_outputBufferWritten)
              ELSE 0
         ELSE nBytesToFlush, LAMBDA nBytesFlushed :
    IF nBytesFlushed > 0
    THEN [d EXCEPT
            !.m_outputBufferWritten = @ + nBytesFlushed,
            !.m_decodedBuffer = SubSeq(@, nBytesFlushed + 1, Len(@)),
            !.sink = IF d.m_outputBuffer \/ d.m_outputFileDescriptor >= 0
                     THEN @ \o SubSeq(d.m_decodedBuffer, 1, nBytesFlushed)
                     ELSE @,
            !.ret = nBytesFlushed]
    ELSE [d EXCEPT !.ret = 0]))

\* BZ2Reader::flushOutputBuffer; write() is taken to write all it is given
FlushOutputBuffer(d, maxBytesToFlush) ==
    With(Min(Len(d.m_decodedBuffer), maxBytesToFlush), LAMBDA nBytesToFlush :
    With(IF d.m_outputBuffer
         THEN IF d.m_outputBufferWritten <= d.m_outputBufferSize
              THEN Min(nBytesToFlush, d.m_outputBufferSize - d.m_outputBufferWritten)
              ELSE 0
         ELSE nBytesToFlush, LAMBDA nBytesFlushed :
    IF nBytesFlushed > 0
    THEN [d EXCEPT
            !.m_decodedBytesCount = @ + nBytesFlushed,
            !.m_outputBufferWritten = @ + nBytesFlushed,
            !.m_decodedBuffer = SubSeq(@, nBytesFlushed + 1, Len(@)),
            !.sink = IF d.m_outputBuffer \/ d.m_outputFileDescriptor >= 0
                     THEN @ \o SubSeq(d.m_decodedBuffer, 1, nBytesFlushed)
                     ELSE @,
            !.ret = nBytesFlushed]
    ELSE [d EXCEPT !.ret = 0]))

\* readBzip2Header as it would be without "m_calculatedStreamCRC = 0"
ReadBzip2HeaderKeepsCRC(f, d) ==
    With(ItemAt(f, d.bitPos), LAMBDA i :
    IF BitReaderEof(f, d) THEN Throw(d, "UnexpectedEof")
    ELSE IF i = 0 \/ f[i].type # "hdr"
    THEN Throw([d EXCEPT !.bitPos = @ + 8], "InvalidMagic")
    ELSE [d EXCEPT !.bitPos = @ + 32, !.m_blockSize100k = f[i].level])

\* BZ2Reader::readBzip2Header
ReadBzip2Header(f, d) ==
    With(ItemAt(f, d.bitPos), LAMBDA i :
    IF BitReaderEof(f, d) THEN Throw(d, "UnexpectedEof")
    ELSE IF i = 0 \/ f[i].type # "hdr"
    THEN Throw([d EXCEPT !.bitPos = @ + 8], "InvalidMagic")
    ELSE [d EXCEPT !.bitPos = @ + 32,
                   !.m_blockSize100k = f[i].level,
                   !.m_calculatedStreamCRC = Zero32])

\* the start of readBlockHeader as it would be with
\* "m_blockToDataOffsets[m_bitReader.tell()] = m_decodedBytesCount" and without
\* the test of m_blockToDataOffsetsComplete
RecordBlockOffsetAlways(d) ==
    [d EXCEPT !.m_blockToDataOffsets =
                  {e \in @ : e[1] # d.bitPos} \cup {<<d.bitPos, d.m_decodedBytesCount>>}]

\* the start of readBlockHeader: the offsets of the block are entered into the
\* map unless the map is complete
RecordBlockOffset(d) ==
    IF ~d.m_blockToDataOffsetsComplete
    THEN [d EXCEPT !.m_blockToDataOffsets =
                       MapInsert(@, d.bitPos, d.m_decodedBytesCount)]
    ELSE d

\* readBlockHeader at an end-of-stream block (item i); d1 is the reader after
\* the magic and the stream CRC were read
ReadEndOfStream(f, d1, i) ==
    With([d1 EXCEPT
            !.m_atEndOfFile = BitReaderEof(f, d1),
            !.m_blockToDataOffsetsComplete = @ \/ BitReaderEof(f, d1)], LAMBDA d2 :
    IF d2.m_streamCRC # d2.m_calculatedStreamCRC
    THEN <<Throw(d2, "StreamCrcMismatch"), NewHeader>>
    ELSE <<d2, [NewHeader EXCEPT !.item = i, !.headerCRC = U32(f[i].crc)]>>)

\* BZ2Reader::readBlockHeader: the pair of the reader and the header returned
ReadBlockHeader(f, d) ==
    With(RecordBlockOffset(d), LAMBDA d1 :
    With(ItemAt(f, d.bitPos), LAMBDA i :
    IF BitReaderEof(f, d) THEN <<Throw(d1, "UnexpectedEof"), NewHeader>>
    ELSE IF i = 0 \/ f[i].type = "hdr"
    THEN <<Throw([d1 EXCEPT !.bitPos = @ + 80, !.m_atEndOfStream = FALSE],
                 "InvalidMagic"), NewHeader>>
    ELSE IF f[i].type = "eos"
    THEN ReadEndOfStream(f, [d1 EXCEPT
                               !.m_atEndOfStream = TRUE,
                               !.m_streamCRC = U32(f[i].crc),
                               !.bitPos = @ + ItemBits(f, i),
                               !.parsed = Append(@, i),
                               !.emitted = 0], i)
    ELSE With([d1 EXCEPT
                 !.m_atEndOfStream = FALSE,
                 !.bitPos = @ + f[i].hbits,
                 !.parsed = Append(@, i),
                 !.emitted = 0], LAMBDA d2 :
         IF f[i].origPtr > DBUF_SIZE
         THEN <<Throw(d2, "MalformedHeader"), NewHeader>>
         ELSE <<d2, [NewHeader EXCEPT !.item = i,
                                      !.headerCRC = U32(f[i].crc),
                                      !.origPtr = f[i].origPtr]>>)))

\* the number of occurrences of byte b in the byte sequence s
Occurrences(s, b) == Cardinality({k \in 1..Len(s) : s[k] = b})

\* BZ2Reader::readBlockData: the symbol pass stores the block's bytes in dbuf
\* and counts them in byteCount (indexed 0..255, here 1..256)
ReadBlockData(f, d) ==
    With(f[d.m_lastHeader.item], LAMBDA item :
    IF Len(item.dbuf) > DBUF_SIZE THEN Throw(d, "MalformedData")
    ELSE With([d EXCEPT
                 !.bitPos = @ + item.dbits,
                 !.m_lastHeader.byteCount =
                     [b \in 1..256 |-> Occurrences(item.dbuf, b - 1)],
                 !.m_lastHeader.dbuf = item.dbuf,
                 !.m_lastHeader.writeCount = Len(item.dbuf)], LAMBDA d1 :
         IF d.m_lastHeader.origPtr >= Len(item.dbuf)
         THEN Throw(d1, "MalformedData")
         ELSE [d1 EXCEPT !.ret = 0]))

\* dbuf[pos]: the entries beyond the block's are the zeros of resize()
DbufAt(bw, pos) == IF pos < Len(bw.dbuf) THEN bw.dbuf[pos + 1] ELSE 0

\* the sum of byteCount over the byte values in bytes
RECURSIVE SumCounts(_, _)
SumCounts(byteCount, bytes) ==
    IF bytes = {} THEN 0
    ELSE With(CHOOSE x \in bytes : TRUE, LAMBDA b :
         byteCount[b + 1] + SumCounts(byteCount, bytes \ {b}))

\* "Turn byteCount into cumulative occurrence counts of 0 to n-1.": the loop
\* leaves in entry i the sum of the entries before it; the entries that are 0
\* add nothing and are skipped
CumulateByteCount(byteCount) ==
    With({b \in 0..255 : byteCount[b + 1] # 0}, LAMBDA used :
    [i \in 1..256 |-> SumCounts(byteCount, {b \in used : b < i - 1})])

\* the loop over dbuf as it would be without "bw->byteCount[uc]++"
RECURSIVE LinkDbufNoAdvance(_, _)
LinkDbufNoAdvance(bw, i) ==
    IF i >= bw.writeCount THEN bw
    ELSE With(bw.dbuf[i + 1] % 256, LAMBDA uc :
         LinkDbufNoAdvance([bw EXCEPT !.dbuf[bw.byteCount[uc + 1] + 1] = @ + i * 256],
                           i + 1))

\* bw->dbuf[bw->byteCount[uc]] |= ( i << 8 ); bw->byteCount[uc]++, for i up to
\* writeCount; every entry is the target once, so the OR fills empty bits
RECURSIVE LinkDbuf(_, _)
LinkDbuf(bw, i) ==
    IF i >= bw.writeCount THEN bw
    ELSE With(bw.dbuf[i + 1] % 256, LAMBDA uc :
         LinkDbuf([bw EXCEPT !.dbuf[bw.byteCount[uc + 1] + 1] = @ + i * 256,
                             !.byteCount[uc + 1] = @ + 1], i + 1))

\* BZ2Reader::prepareBurrowsWheeler; byteCount is not read again before the
\* next readBlockData refills it and is dropped from the record
PrepareBurrowsWheeler(bw) ==
    With([LinkDbuf([bw EXCEPT !.byteCount = CumulateByteCount(@)], 0)
             EXCEPT !.byteCount = <<>>, !.dataCRC = Ones32], LAMBDA bw2 :
    IF bw2.writeCount # 0
    THEN [bw2 EXCEPT !.writePos = DbufAt(bw2, bw2.origPtr) \div 256,
                     !.writeCurrent = DbufAt(bw2, bw2.origPtr) % 256,
                     !.writeRun = -1]
    ELSE bw2)

\* "pos = bw->dbuf[pos]; current = pos & 0xff; pos >>= 8": one step along the
\* links of dbuf
FollowLink(bw) ==
    [bw EXCEPT !.writePos = DbufAt(bw, bw.writePos) \div 256,
               !.writeCurrent = DbufAt(bw, bw.writePos) % 256]

\* BZ2Reader::readNextBlock
ReadNextBlock(f, d) ==
    With(ReadBlockHeader(f, d), LAMBDA r :
    IF ~Ok(r[1]) THEN r[1]
    ELSE With([r[1] EXCEPT !.m_lastHeader = r[2]], LAMBDA d1 :
         IF Eos_(d1) THEN [d1 EXCEPT !.ret = 0]
         ELSE With(ReadBlockData(f, d1), LAMBDA d2 :
              IF ~Ok(d2) THEN d2
              ELSE [d2 EXCEPT !.m_lastHeader = PrepareBurrowsWheeler(@)])))

\* the body of "while ( copies-- )": flush a full buffer, then store outbyte
\* and update the block CRC.  A store into a buffer that is still full would
\* be out of bounds; the model reports it as an error of its own.
RECURSIVE CopyLoop(_, _, _, _, _)
CopyLoop(d, nBytesDecoded, copies, outbyte, nMaxBytesToDecode) ==
    IF copies = 0 THEN [d |-> d, nBytesDecoded |-> nBytesDecoded]
    ELSE With(IF Len(d.m_decodedBuffer) = IOBUF_SIZE
              THEN FlushOutputBuffer(d, nMaxBytesToDecode - nBytesDecoded)
              ELSE [d EXCEPT !.ret = 0], LAMBDA d1 :
         IF Len(d1.m_decodedBuffer) >= IOBUF_SIZE
         THEN [d |-> Throw(d1, "BufferOverflow"),
               nBytesDecoded |-> nBytesDecoded + d1.ret]
         ELSE CopyLoop([d1 EXCEPT
                          !.m_decodedBuffer = Append(@, outbyte),
                          !.m_lastHeader.dataCRC = CrcUpdate(@, outbyte),
                          !.emitted = @ + 1],
                       nBytesDecoded + d1.ret, copies - 1, outbyte,
                       nMaxBytesToDecode))

\* the pass as it would be without "current = -1" after a repeat count: the
\* count itself is taken as the byte that the next one may continue
OutputStepKeepsCurrent(L, entry, previous, nMaxBytesToDecode) ==
    With(CopyLoop(L.d, L.nBytesDecoded,
                  IF L.run = 3 THEN entry % 256 ELSE 1,
                  IF L.run = 3 THEN previous ELSE entry % 256,
                  nMaxBytesToDecode), LAMBDA c :
    [d |-> c.d,
     count |-> L.count - 1,
     pos |-> entry \div 256,
     current |-> entry % 256,
     run |-> IF entry % 256 # previous THEN 0 ELSE L.run + 1,
     nBytesDecoded |-> c.nBytesDecoded,
     interrupted |-> FALSE])

\* one pass of "while ( count )" that is not interrupted: entry is dbuf[pos]
\* and previous the value of current before the pass
OutputStep(L, entry, previous, nMaxBytesToDecode) ==
    With(CopyLoop(L.d, L.nBytesDecoded,
                  IF L.run = 3 THEN entry % 256 ELSE 1,
                  IF L.run = 3 THEN previous ELSE entry % 256,
                  nMaxBytesToDecode), LAMBDA c :
    With(IF L.run = 3 THEN -1 ELSE entry % 256, LAMBDA current :
    [d |-> c.d,
     count |-> L.count - 1,
     pos |-> entry \div 256,
     current |-> current,
     run |-> IF current # previous THEN 0 ELSE L.run + 1,
     nBytesDecoded |-> c.nBytesDecoded,
     interrupted |-> FALSE]))

\* "while ( count )" of decodeStream over the locals count, pos, current, run
\* and nBytesDecoded; interrupted is the jump to dataus_interruptus
RECURSIVE OutputLoop(_, _)
OutputLoop(L, nMaxBytesToDecode) ==
    IF L.count = 0 \/ ~Ok(L.d) THEN L
    ELSE IF L.nBytesDecoded + Len(L.d.m_decodedBuffer) >= nMaxBytesToDecode
    THEN [L EXCEPT !.interrupted = TRUE]
    ELSE OutputLoop(OutputStep(L, DbufAt(L.d.m_lastHeader, L.pos), L.current,
                               nMaxBytesToDecode),
                    nMaxBytesToDecode)

\* the end of a block as it would be without the comparison of the block CRC
\* with the header's
FinishBlockUnchecked(d) ==
    [d EXCEPT
       !.m_lastHeader.dataCRC = Not32(@),
       !.m_calculatedStreamCRC = Xor32(RotL1(@), Not32(d.m_lastHeader.dataCRC)),
       !.folds = Append(@, d.m_lastHeader.item)]

\* "decompression of this block completed successfully": complement the block
\* CRC, fold it into the stream CRC and compare it with the header's
FinishBlock(d) ==
    With([d EXCEPT
            !.m_lastHeader.dataCRC = Not32(@),
            !.m_calculatedStreamCRC = Xor32(RotL1(@), Not32(d.m_lastHeader.dataCRC)),
            !.folds = Append(@, d.m_lastHeader.item)], LAMBDA d1 :
    IF d1.m_lastHeader.dataCRC # d1.m_lastHeader.headerCRC
    THEN Throw(d1, "BlockCrcMismatch")
    ELSE d1)

\* decodeStream from the label dataus_interruptus to the end of the pass; L
\* holds the locals and d2 is the reader they were computed on
RECURSIVE DecodeStreamLoop(_, _, _, _)
DatausInterruptus(f, d2, L, nMaxBytesToDecode) ==
    With(FlushOutputBuffer([d2 EXCEPT !.m_lastHeader.writeCount = L.count],
                           nMaxBytesToDecode - L.nBytesDecoded), LAMBDA d3 :
    IF L.nBytesDecoded + d3.ret >= nMaxBytesToDecode
    THEN [d3 EXCEPT !.m_lastHeader.writePos = L.pos,
                    !.m_lastHeader.writeCurrent = L.current,
                    !.m_lastHeader.writeRun = L.run,
                    !.ret = L.nBytesDecoded + d3.ret]
    ELSE DecodeStreamLoop(f, d3, nMaxBytesToDecode, L.nBytesDecoded + d3.ret))

\* decodeStream as it would be with the label dataus_interruptus placed before
\* the CRC of the block is complemented and folded: an interrupted block is
\* folded like a finished one
GenerateOutputFoldsInterrupted(f, d1, nMaxBytesToDecode, nBytesDecoded) ==
    With(OutputLoop([d |-> d1,
                     count |-> d1.m_lastHeader.writeCount,
                     pos |-> d1.m_lastHeader.writePos,
                     current |-> d1.m_lastHeader.writeCurrent,
                     run |-> d1.m_lastHeader.writeRun,
                     nBytesDecoded |-> nBytesDecoded,
                     interrupted |-> FALSE], nMaxBytesToDecode), LAMBDA L :
    IF ~Ok(L.d) THEN L.d
    ELSE DatausInterruptus(f, FinishBlockUnchecked(L.d), L, nMaxBytesToDecode))

\* decodeStream from "loop generating output" on, d1 being the reader after
\* the refill
GenerateOutput(f, d1, nMaxBytesToDecode, nBytesDecoded) ==
    With(OutputLoop([d |-> d1,
                     count |-> d1.m_lastHeader.writeCount,
                     pos |-> d1.m_lastHeader.writePos,
                     current |-> d1.m_lastHeader.writeCurrent,
                     run |-> d1.m_lastHeader.writeRun,
                     nBytesDecoded |-> nBytesDecoded,
                     interrupted |-> FALSE], nMaxBytesToDecode), LAMBDA L :
    IF ~Ok(L.d) THEN L.d
    ELSE IF L.interrupted THEN DatausInterruptus(f, L.d, L, nMaxBytesToDecode)
    ELSE With(FinishBlock(L.d), LAMBDA d2 :
         IF ~Ok(d2) THEN d2 ELSE DatausInterruptus(f, d2, L, nMaxBytesToDecode)))

\* "while ( true )" of decodeStream
DecodeStreamLoop(f, d, nMaxBytesToDecode, nBytesDecoded) ==
    IF d.m_lastHeader.writeCount = 0
    THEN With(ReadNextBlock(f, d), LAMBDA d1 :
         IF ~Ok(d1) THEN d1
         ELSE IF Eos_(d1)
         THEN [d1 EXCEPT !.m_lastHeader.writeCount = d1.ret, !.ret = nBytesDecoded]
         ELSE GenerateOutput(f, d1, nMaxBytesToDecode, nBytesDecoded))
    ELSE GenerateOutput(f, d, nMaxBytesToDecode, nBytesDecoded)

\* BZ2Reader::decodeStream
DecodeStream(f, d, nMaxBytesToDecode) ==
    IF Eof(d) \/ nMaxBytesToDecode = 0 THEN [d EXCEPT !.ret = 0]
    ELSE DecodeStreamLoop(f, d, nMaxBytesToDecode, 0)

\* BZ2Reader::decodeBzip2; a pass of the loop that changes nothing would repeat
\* for ever and is reported as the error "Hang"
RECURSIVE DecodeBzip2Loop(_, _, _, _)
DecodeBzip2Loop(f, d, nMaxBytesToDecode, nBytesDecoded) ==
    IF ~(nBytesDecoded < nMaxBytesToDecode /\ ~BitReaderEof(f, d))
    THEN [d EXCEPT !.ret = nBytesDecoded]
    ELSE With(IF d.bitPos = 0 \/ Eos_(d) THEN ReadBzip2Header(f, d) ELSE d,
              LAMBDA d1 :
         IF ~Ok(d1) THEN d1
         ELSE With(DecodeStream(f, d1, nMaxBytesToDecode - nBytesDecoded),
                   LAMBDA d2 :
              IF ~Ok(d2) THEN d2
              ELSE IF [d2 EXCEPT !.ret = d.ret] = d THEN Throw(d2, "Hang")
              ELSE DecodeBzip2Loop(f, d2, nMaxBytesToDecode,
                                   nBytesDecoded + d2.ret)))

DecodeBzip2(f, d, nMaxBytesToDecode) == DecodeBzip2Loop(f, d, nMaxBytesToDecode, 0)

\* BZ2Reader::read; outputBuffer says whether the caller passes a buffer.  An
\* exception leaves the sink members set.
Read(f, d, outputFileDescriptor, outputBuffer, nBytesToRead) ==
    IF Eof(d) THEN [d EXCEPT !.ret = 0]
    ELSE With(DecodeBzip2(f, [d EXCEPT
                                !.m_outputFileDescriptor = outputFileDescriptor,
                                !.m_outputBuffer = outputBuffer,
                                !.m_outputBufferSize = nBytesToRead,
                                !.m_outputBufferWritten = 0],
                          nBytesToRead), LAMBDA d2 :
         IF ~Ok(d2) THEN d2
         ELSE [d2 EXCEPT !.m_outputFileDescriptor = -1,
                         !.m_outputBuffer = FALSE,
                         !.m_outputBufferSize = 0,
                         !.m_outputBufferWritten = 0])

\* BZ2Reader::blockOffsets; the map it returns is m_blockToDataOffsets
BlockOffsets(f, d) ==
    IF ~d.m_blockToDataOffsetsComplete THEN DecodeBzip2(f, d, SIZE_MAX) ELSE d

\* setBlockOffsets as it would be with the size test after the assignments
SetBlockOffsetsThenTest(d, offsets) ==
    IF Cardinality(offsets) < 2
    THEN Throw([d EXCEPT !.m_blockToDataOffsetsComplete = TRUE,
                         !.m_blockToDataOffsets = offsets], "invalid_argument")
    ELSE [d EXCEPT !.m_blockToDataOffsetsComplete = TRUE,
                   !.m_blockToDataOffsets = offsets]

\* BZ2Reader::setBlockOffsets
SetBlockOffsets(d, offsets) ==
    IF Cardinality(offsets) < 2 THEN Throw(d, "invalid_argument")
    ELSE [d EXCEPT !.m_blockToDataOffsetsComplete = TRUE,
                   !.m_blockToDataOffsets = offsets]

\* BitReader::seek on a file: fseek, and fgetc of the byte that holds the
\* sub-byte position, which fails at the end of the file
BitReaderSeek(f, d, offsetBits) ==
    IF offsetBits % 8 > 0 /\ offsetBits >= BitReaderSize(f)
    THEN Throw(d, "invalid_argument")
    ELSE [d EXCEPT !.bitPos = offsetBits]

\* std::lower_bound over the map in reverse key order with the comparison
\* a.second > b.second: the entry with the largest key among those whose value
\* is at most offset (the values do not decrease with the keys); {} for rend()
SeekBlockOffset(map, offset) ==
    With({e \in map : e[2] <= offset}, LAMBDA le :
    IF le = {} THEN {} ELSE {CHOOSE e \in le : \A o \in le : o[1] <= e[1]})

\* BZ2Reader::seek from "m_bitReader.seek( blockOffset->first )" on
SeekInBlock(f, d2, offset, blockOffset) ==
    With(BitReaderSeek(f, d2, blockOffset[1]), LAMBDA d3 :
    IF ~Ok(d3) THEN d3
    ELSE With(ReadNextBlock(f, d3), LAMBDA d4 :
         IF ~Ok(d4) THEN d4
         ELSE With(DecodeStream(f, d4, offset - blockOffset[2]), LAMBDA d5 :
              IF ~Ok(d5) THEN d5
              ELSE IF d5.ret # offset - blockOffset[2]
              THEN Throw(d5, "runtime_error")
              ELSE [d5 EXCEPT !.ret = offset])))

\* BZ2Reader::seek from "offset = std::max( 0LL, offset )" on
SeekTo(f, d, offset) ==
    With(FlushOutputBuffer(d, SIZE_MAX), LAMBDA d1 :
    IF Size(d1).err # "none" THEN Throw(d1, Size(d1).err)
    ELSE With([d1 EXCEPT !.m_atEndOfFile = offset >= Size(d1).ret, !.ret = offset],
              LAMBDA d2 :
         IF Eof(d2) THEN d2
         ELSE With(SeekBlockOffset(d2.m_blockToDataOffsets, offset), LAMBDA found :
              IF found = {} THEN Throw(d2, "runtime_error")
              ELSE With(CHOOSE e \in found : TRUE, LAMBDA blockOffset :
                   IF offset < blockOffset[2] THEN Throw(d2, "runtime_error")
                   ELSE SeekInBlock(f, d2, offset, blockOffset)))))

\* BZ2Reader::seek
Seek(f, d, offset, origin) ==
    With(IF ~d.m_blockToDataOffsetsComplete THEN DecodeBzip2(f, d, SIZE_MAX) ELSE d,
         LAMBDA d1 :
    IF ~Ok(d1) THEN d1
    ELSE IF origin = "SEEK_END" /\ Size(d1).err # "none"
    THEN Throw(d1, Size(d1).err)
    ELSE With(CASE origin = "SEEK_CUR" -> Tell(d1) + offset
                [] origin = "SEEK_SET" -> offset
                [] origin = "SEEK_END" -> Size(d1).ret + offset, LAMBDA target :
         IF Tell(d1) = target THEN [d1 EXCEPT !.ret = target]
         ELSE SeekTo(f, d1, Max(0, target))))

(***************************************************************************)
(* The bit reader, bit by bit.  A bit reader is a record of the members of *)
(* BitReader and of the FILE it reads: m_file is the sequence of the bytes *)
(* of the file, and isNull says that m_file is the null pointer, as it is  *)
(* for a reader made from a buffer in memory;                              *)
(* filePos is the file position ftell returns and feof the end-of-file     *)
(* indicator.  ret is the result of the last read (32 bits, the most       *)
(* significant first) and err the exception the last call threw.  The      *)
(* reader made from a buffer calls fseek, ftell and fread with a null      *)
(* FILE, which the C library dereferences: the process dies, which is the  *)
(* error "NullFile" of the model.  The read of an element that m_inbuf     *)
(* does not have is the error "OutOfBounds".                               *)
(***************************************************************************)
\* BitReader::IOBUF_SIZE, the number of bytes fread is asked for
BitReader_IOBUF_SIZE == 2

And32(a, b) == [i \in Bit32 |-> a[i] * b[i]]

Or32(a, b) == [i \in Bit32 |-> IF a[i] + b[i] > 0 THEN 1 ELSE 0]

\* a >> n
Shr32(a, n) == [i \in Bit32 |-> IF i - n >= 1 THEN a[i - n] ELSE 0]

\* ( 1 << n ) - 1 for n in 0..31, in 32 bits
LowMask(n) == [i \in Bit32 |-> IF i > 32 - n THEN 1 ELSE 0]

\* ( a << 8 ) | byte
PushByte(a, byte) ==
    [i \in Bit32 |-> IF i <= 24 THEN a[i + 8] ELSE BitsOf(byte, 8)[i - 24]]

\* std::vector::resize: cut, or filled up with zeros
Resize(v, n) == [k \in 1..n |-> IF k <= Len(v) THEN v[k] ELSE 0]

\* BitReader( filePath ) and init(): the reader of a file of the given bytes
BitReader_new(bytes) ==
    [m_file |-> bytes, isNull |-> FALSE, filePos |-> 0, feof |-> FALSE,
     m_fileSizeBytes |-> Len(bytes),
     m_inbuf |-> <<>>, m_inbufPos |-> 0,
     m_inbufBits |-> Zero32, m_inbufBitCount |-> 0,
     ret |-> Zero32, err |-> "none"]

\* BitReader( buffer, size ) and init(): m_inbuf is a copy of the buffer, and
\* init calls fseek with the null m_file before m_fileSizeBytes is set
BitReader_fromBuffer(buffer) ==
    [m_file |-> <<>>, isNull |-> TRUE, filePos |-> 0, feof |-> FALSE,
     m_fileSizeBytes |-> 0,
     m_inbuf |-> buffer, m_inbufPos |-> 0,
     m_inbufBits |-> Zero32, m_inbufBitCount |-> 0,
     ret |-> Zero32, err |-> "NullFile"]

\* BitReader::tell()
BitReader_tell(br) ==
    (br.filePos - Len(br.m_inbuf) + br.m_inbufPos) * 8 - br.m_inbufBitCount

\* BitReader::size()
BitReader_size(br) == br.m_fileSizeBytes * 8

\* BitReader::eof()
BitReader_eof(br) == BitReader_tell(br) >= BitReader_size(br)

\* "if we need to read more data from file into byte buffer, do so": fread of
\* up to IOBUF_SIZE bytes into the resized buffer; fread on a null FILE is
\* the error "NullFile" of the model
FillBuffer(br) ==
    IF br.m_inbufPos # Len(br.m_inbuf) THEN br
    ELSE IF br.isNull
    THEN Throw([br EXCEPT !.m_inbuf = Resize(@, BitReader_IOBUF_SIZE)], "NullFile")
    ELSE With(Min(BitReader_IOBUF_SIZE, Len(br.m_file) - br.filePos),
              LAMBDA nBytesRead :
         IF nBytesRead <= 0
         THEN Throw([br EXCEPT !.m_inbuf = Resize(@, BitReader_IOBUF_SIZE),
                               !.feof = TRUE], "domain_error")
         ELSE [br EXCEPT
                 !.m_inbuf = SubSeq(br.m_file, br.filePos + 1,
                                    br.filePos + nBytesRead),
                 !.m_inbufPos = 0,
                 !.filePos = @ + nBytesRead,
                 !.feof = nBytesRead < BitReader_IOBUF_SIZE])

\* "avoid 32-bit overflow (dump bit buffer to top of output)" as it would be
\* without "bits <<= bitsNeeded": the dumped bits stay at the bottom
DumpBitBufferUnshifted(L) ==
    IF L.br.m_inbufBitCount >= 24
    THEN [br |-> [L.br EXCEPT !.m_inbufBitCount = 0],
          bitsNeeded |-> L.bitsNeeded - L.br.m_inbufBitCount,
          bits |-> And32(L.br.m_inbufBits, LowMask(L.br.m_inbufBitCount))]
    ELSE L

\* "avoid 32-bit overflow (dump bit buffer to top of output)"; L holds the
\* reader and the locals bits and bitsNeeded
DumpBitBuffer(L) ==
    IF L.br.m_inbufBitCount >= 24
    THEN [br |-> [L.br EXCEPT !.m_inbufBitCount = 0],
          bitsNeeded |-> L.bitsNeeded - L.br.m_inbufBitCount,
          bits |-> Shl32(And32(L.br.m_inbufBits, LowMask(L.br.m_inbufBitCount)),
                         L.bitsNeeded - L.br.m_inbufBitCount)]
    ELSE L

\* "grab next 8 bits of input from buffer"
GrabByte(br) ==
    IF br.m_inbufPos >= Len(br.m_inbuf)
    THEN Throw(br, "OutOfBounds")
    ELSE [br EXCEPT !.m_inbufBits = PushByte(@, br.m_inbuf[br.m_inbufPos + 1]),
                    !.m_inbufPos = @ + 1,
                    !.m_inbufBitCount = @ + 8]

\* "while ( m_inbufBitCount < bitsNeeded )" of BitReader::read
RECURSIVE FetchLoop(_)
FetchLoop(L) ==
    IF ~Ok(L.br) \/ ~(L.br.m_inbufBitCount < L.bitsNeeded) THEN L
    ELSE With(FillBuffer(L.br), LAMBDA b1 :
         IF ~Ok(b1) THEN [L EXCEPT !.br = b1]
         ELSE With(DumpBitBuffer([L EXCEPT !.br = b1]), LAMBDA L1 :
              FetchLoop([L1 EXCEPT !.br = GrabByte(L1.br)])))

\* BitReader::read( bits_wanted ): the reader after the call, the result in
\* ret.  "1 << bitsNeeded" with bitsNeeded = 32 would be undefined; the model
\* reports it as the error "ShiftTooWide".
BitReader_read(br, bits_wanted) ==
    With(FetchLoop([br |-> br, bitsNeeded |-> bits_wanted, bits |-> Zero32]),
         LAMBDA L :
    IF ~Ok(L.br) THEN L.br
    ELSE IF L.bitsNeeded >= 32 THEN Throw(L.br, "ShiftTooWide")
    ELSE With(L.br.m_inbufBitCount - L.bitsNeeded, LAMBDA count :
         [L.br EXCEPT
            !.m_inbufBitCount = count,
            !.ret = Or32(L.bits, And32(Shr32(L.br.m_inbufBits, count),
                                       LowMask(L.bitsNeeded)))]))

\* the branch of BitReader::seek for a file: fseek, which clears the
\* end-of-file indicator, and fgetc of the byte the target lies in
SeekFile(br, bytesToSeek, subbitsToSeek) ==
    With([br EXCEPT !.filePos = bytesToSeek, !.feof = FALSE], LAMBDA b1 :
    With(IF subbitsToSeek = 0 THEN b1
         ELSE IF b1.filePos < Len(b1.m_file)
         THEN [b1 EXCEPT !.m_inbufBitCount = 8 - subbitsToSeek,
                         !.m_inbufBits = PushByte(Zero32, b1.m_file[b1.filePos + 1]),
                         !.filePos = @ + 1]
         ELSE [b1 EXCEPT !.m_inbufBitCount = 8 - subbitsToSeek,
                         !.m_inbufBits = Ones32,
                         !.feof = TRUE], LAMBDA b2 :
    IF b2.feof THEN Throw(b2, "invalid_argument") ELSE b2))

\* the branch of BitReader::seek for m_file == nullptr: the exception for
\* bytesToSeek >= m_inbuf.size() is made but not thrown, and the element of
\* the cleared m_inbuf is read
SeekBuffer(br, bytesToSeek, subbitsToSeek) ==
    With([br EXCEPT !.m_inbufPos = bytesToSeek], LAMBDA b1 :
    IF subbitsToSeek = 0 THEN b1
    ELSE IF b1.m_inbufPos >= Len(b1.m_inbuf)
    THEN Throw([b1 EXCEPT !.m_inbufBitCount = 8 - subbitsToSeek], "OutOfBounds")
    ELSE [b1 EXCEPT !.m_inbufBitCount = 8 - subbitsToSeek,
                    !.m_inbufBits = PushByte(Zero32, b1.m_inbuf[b1.m_inbufPos + 1]),
                    !.m_inbufPos = @ + 1])

\* BitReader::seek( offsetBits )
BitReader_seek(br, offsetBits) ==
    With([br EXCEPT !.m_inbuf = <<>>, !.m_inbufPos = 0,
                    !.m_inbufBits = Zero32, !.m_inbufBitCount = 0], LAMBDA b1 :
    IF b1.isNull
    THEN SeekBuffer(b1, offsetBits \div 8, offsetBits % 8)
    ELSE SeekFile(b1, offsetBits \div 8, offsetBits % 8))

(***************************************************************************)
(* The block header, bit by bit.  A header parse is a record of the bit    *)
(* reader br, of the fields of the BlockHeader readBlockHeader has filled  *)
(* so far and of its position in the function (phase); err is the          *)
(* exception thrown and thrownAt the statement that threw it.  The fields  *)
(* a fresh BlockHeader leaves uninitialised hold the value garbage.  Of    *)
(* each Huffman group the parse keeps the code lengths; the tables base,   *)
(* limit and permute computed from them are not modelled.  What a          *)
(* caller observing the parse sees in addition:                            *)
(*   runs         the lengths of the runs of 1-bits read for the selectors;*)
(*   adjustments  the number of +1/-1 steps before the last length;        *)
(*   emittedAt    tell() when the last length was recorded;                *)
(*   lengthFrom   tell() when the loop for that length was entered.        *)
(***************************************************************************)
MAX_GROUPS == 6

MAX_HUFCODE_BITS == 20

\* the two halves of the 48 magic bits of a data block (bcd(pi)) and of the
\* end-of-stream block (bcd(sqrt(pi)))
MAGIC_PI == <<3227993, 2511705>>

MAGIC_SQRT_PI == <<1536581, 3690640>>

\* a fresh BlockHeader on a reader at the start of a block
NewHeaderParse(br, garbage) ==
    [br |-> br, phase |-> "magic", err |-> "none", thrownAt |-> "",
     val |-> 0, headerCRC |-> Zero32,
     origPtr |-> 0, dbufSize |-> 0,
     symbolCount |-> garbage, symbolToByte |-> <<>>, huffman_groups |-> garbage,
     groupCount |-> 0, selectors_used |-> garbage,
     mtfSymbol |-> [i \in 0..MAX_GROUPS |-> garbage],
     selectors |-> <<>>, lengths |-> <<>>, length |-> <<>>,
     runs |-> <<>>, adjustments |-> 0, emittedAt |-> 0, lengthFrom |-> 0]

\* an exception thrown by the statement named at
ThrowAt(h, e, at) == [h EXCEPT !.err = e, !.thrownAt = at, !.phase = "thrown"]

\* getBits( nBits ): the value read is left in val (for up to 24 bits) and in
\* br.ret; the exception of the bit reader passes through
GetBits(h, nBits) ==
    With(BitReader_read(h.br, nBits), LAMBDA b1 :
    IF ~Ok(b1) THEN ThrowAt([h EXCEPT !.br = b1], b1.err, "BitReader::read")
    ELSE [h EXCEPT !.br = b1,
                   !.val = IF nBits <= 24 THEN BitsValue(b1.ret, 33 - nBits, 32)
                           ELSE 0])

\* readBlockHeader from the magic bytes to the test of them; the branch of
\* the end-of-stream block is not followed further here
ReadMagic(h) ==
    With(GetBits(h, 24), LAMBDA h1 :
    IF ~Ok(h1) THEN h1
    ELSE With(GetBits(h1, 24), LAMBDA h2 :
         IF ~Ok(h2) THEN h2
         ELSE With(GetBits(h2, 32), LAMBDA h3 :
              IF ~Ok(h3) THEN h3
              ELSE With([h3 EXCEPT !.headerCRC = h3.br.ret], LAMBDA h4 :
                   IF <<h1.val, h2.val>> = MAGIC_SQRT_PI
                   THEN [h4 EXCEPT !.phase = "endOfStream"]
                   ELSE IF <<h1.val, h2.val>> # MAGIC_PI
                   THEN ThrowAt(h4, "domain_error", "magic")
                   ELSE [h4 EXCEPT !.phase = "origPtr"]))))

\* "( header.bwdata.origPtr = getBits( 24 ) ) > header.bwdata.dbuf.size()"
OrigPtrTooLarge(origPtr, dbufSize) == origPtr > dbufSize

\* readBlockHeader from dbuf.resize to the test of origPtr
ReadOrigPtr(h) ==
    With(GetBits([h EXCEPT !.dbufSize = DBUF_SIZE], 1), LAMBDA h1 :
    IF ~Ok(h1) THEN h1
    ELSE IF h1.val # 0 THEN ThrowAt(h1, "domain_error", "isRandomized")
    ELSE With(GetBits(h1, 24), LAMBDA h2 :
         IF ~Ok(h2) THEN h2
         ELSE With([h2 EXCEPT !.origPtr = h2.val], LAMBDA h3 :
              IF OrigPtrTooLarge(h3.origPtr, h3.dbufSize)
              THEN ThrowAt(h3, "logic_error", "origPtr")
              ELSE [h3 EXCEPT !.phase = "symbolMap"])))

\* the passes i, i+1, .. 15 of the loop over the mapping table index; map is
\* the 16 bits of the index
RECURSIVE ReadBitmaps(_, _, _)
ReadBitmaps(h, map, i) ==
    IF i = 16 \/ ~Ok(h) THEN h
    ELSE IF map[i + 1] = 0 THEN ReadBitmaps(h, map, i + 1)
    ELSE With(GetBits(h, 16), LAMBDA h1 :
         IF ~Ok(h1) THEN h1
         ELSE With(BitsOf(h1.val, 16), LAMBDA bitmap :
              ReadBitmaps([h1 EXCEPT
                             !.symbolToByte =
                                 @ \o [k \in 1..Cardinality({j \in 1..16 : bitmap[j] = 1}) |->
                                          16 * i + (CHOOSE j \in 0..15 :
                                              /\ bitmap[j + 1] = 1
                                              /\ Cardinality({m \in 0..(j - 1) :
                                                     bitmap[m + 1] = 1}) = k - 1)],
                             !.symbolCount = @ + Cardinality({j \in 1..16 : bitmap[j] = 1})],
                          map, i + 1)))

\* readBlockHeader: the mapping table
ReadSymbolMap(h) ==
    With(GetBits(h, 16), LAMBDA h1 :
    IF ~Ok(h1) THEN h1
    ELSE With(ReadBitmaps([h1 EXCEPT !.huffman_groups = h1.val, !.symbolCount = 0],
                          BitsOf(h1.val, 16), 0), LAMBDA h2 :
         IF ~Ok(h2) THEN h2 ELSE [h2 EXCEPT !.phase = "groupCount"]))

\* readBlockHeader from groupCount to the start of the loop over the selectors
ReadGroupCount(h) ==
    With(GetBits(h, 3), LAMBDA h1 :
    IF ~Ok(h1) THEN h1
    ELSE IF h1.val < 2 \/ h1.val > MAX_GROUPS
    THEN ThrowAt([h1 EXCEPT !.groupCount = h1.val], "logic_error", "groupCount")
    ELSE With(GetBits([h1 EXCEPT !.groupCount = h1.val], 15), LAMBDA h2 :
         IF ~Ok(h2) THEN h2
         ELSE IF h2.val = 0
         THEN ThrowAt([h2 EXCEPT !.selectors_used = 0], "logic_error", "selectors_used")
         ELSE [h2 EXCEPT
                 !.selectors_used = h2.val,
                 !.mtfSymbol = [i \in 0..MAX_GROUPS |->
                                   IF i < h2.groupCount THEN i ELSE @[i]],
                 !.phase = "selector"]))

\* "for ( ; getBits( 1 ); j++ )" with its test of j: the pair of the parse
\* and of j when the loop is left
RECURSIVE ReadUnary(_, _)
ReadUnary(h, j) ==
    With(GetBits(h, 1), LAMBDA h1 :
    IF ~Ok(h1) THEN <<h1, j>>
    ELSE IF h1.val = 0 THEN <<h1, j>>
    ELSE IF j >= h1.groupCount THEN <<ThrowAt(h1, "domain_error", "selector"), j>>
    ELSE ReadUnary(h1, j + 1))

\* memmove( mtfSymbol.data() + 1, mtfSymbol.data(), j ); mtfSymbol[0] = uc
MoveToFront(mtfSymbol, j, uc) ==
    [i \in DOMAIN mtfSymbol |->
        IF i = 0 THEN uc ELSE IF i <= j THEN mtfSymbol[i - 1] ELSE mtfSymbol[i]]

\* one pass of the loop over the selectors
ReadSelector(h) ==
    With(ReadUnary(h, 0), LAMBDA r :
    IF ~Ok(r[1]) THEN r[1]
    ELSE With(r[1].mtfSymbol[r[2]], LAMBDA uc :
         With([r[1] EXCEPT !.mtfSymbol = MoveToFront(@, r[2], uc),
                           !.selectors = Append(@, uc),
                           !.runs = Append(@, r[2])], LAMBDA h1 :
         IF Len(h1.selectors) < h1.selectors_used THEN h1
         ELSE [h1 EXCEPT !.phase = "groupStart"])))

\* "hh = getBits( 5 )" at the start of a group; hh is huffman_groups
ReadGroupStart(h) ==
    With(GetBits(h, 5), LAMBDA h1 :
    IF ~Ok(h1) THEN h1
    ELSE [h1 EXCEPT !.huffman_groups = h1.val, !.length = <<>>, !.phase = "length"])

\* the test of the length as it would be with "hh > MAX_HUFCODE_BITS" alone
LengthAboveMax(hh) == hh > MAX_HUFCODE_BITS

\* "MAX_HUFCODE_BITS - 1 < (unsigned)hh - 1": hh is 0 or above the maximum
LengthOutOfRange(hh) == hh = 0 \/ MAX_HUFCODE_BITS - 1 < hh - 1

\* "m_bitReader.m_inbufBitCount++": the second of the two bits is given back
UnreadBit(br) == [br EXCEPT !.m_inbufBitCount = @ + 1]

\* "while ( true )" of the loop over the lengths; a counts the adjustments
RECURSIVE AdjustLength(_, _)
AdjustLength(h, a) ==
    IF LengthOutOfRange(h.huffman_groups) THEN ThrowAt(h, "logic_error", "length")
    ELSE With(GetBits(h, 2), LAMBDA h1 :
         IF ~Ok(h1) THEN h1
         ELSE IF h1.val >= 2
         THEN AdjustLength([h1 EXCEPT !.huffman_groups = @ + 1 - 2 * (h1.val % 2)],
                           a + 1)
         ELSE [h1 EXCEPT !.br = UnreadBit(@), !.adjustments = a])

\* one pass of the loop over the symbols of a group: the length of one symbol;
\* after the last symbol of the last group the header is returned
ReadLength(h) ==
    With(AdjustLength([h EXCEPT !.lengthFrom = BitReader_tell(h.br)], 0), LAMBDA h1 :
    IF ~Ok(h1) THEN h1
    ELSE With([h1 EXCEPT !.length = Append(@, h1.huffman_groups),
                         !.emittedAt = BitReader_tell(h1.br)], LAMBDA h2 :
         IF Len(h2.length) < h2.symbolCount + 2 THEN h2
         ELSE With([h2 EXCEPT !.lengths = Append(@, h2.length)], LAMBDA h3 :
              IF Len(h3.lengths) < h3.groupCount
              THEN [h3 EXCEPT !.phase = "groupStart"]
              ELSE [h3 EXCEPT !.phase = "returned"])))

(***************************************************************************)
(* The symbol pass of readBlockData over the symbols the Huffman decoder   *)
(* hands it.  The locals hh, runPos and dbufCount are ints: a result that  *)
(* int cannot hold is the wrapped value, or the end of the process in a    *)
(* build that traps it.  dbuf is kept as the runs <<byte, count>> written  *)
(* to it, in order.                                                        *)
(***************************************************************************)
GROUP_SIZE == 50

SYMBOL_RUNB == 1

INT_MAX == 2147483647

INT_MIN == -INT_MAX - 1

\* a + b is a value of int
AddFits(a, b) == IF b >= 0 THEN a <= INT_MAX - b ELSE a >= INT_MIN - b

\* a + b modulo 2^32, as an int
AddWrap(a, b) ==
    IF AddFits(a, b) THEN a + b
    ELSE IF b > 0 THEN (a + INT_MIN) + (b + INT_MIN)
    ELSE (a - INT_MIN) + (b - INT_MIN)

\* "x << nextSym" for nextSym 0 or 1, and whether the result is a value of int
ShlFits(x, nextSym) == nextSym = 0 \/ (x >= 0 /\ AddFits(x, x))

ShlWrap(x, nextSym) == IF nextSym = 0 THEN x ELSE AddWrap(x, x)

\* the locals of readBlockData at the start of the loop, for a header with
\* the given fields, the symbols syms to come out of the Huffman decoder and
\* the build
NewSymbolPass(header, syms, build) ==
    [syms |-> syms, pos |-> 1, build |-> build,
     phase |-> "symbols", err |-> "none", thrownAt |-> "",
     symbolCount |-> header.symbolCount, symbolToByte |-> header.symbolToByte,
     selectors_used |-> header.selectors_used, origPtr |-> header.origPtr,
     byteCount |-> [b \in {header.symbolToByte[i] : i \in DOMAIN header.symbolToByte} |-> 0],
     mtfSymbol |-> [i \in 0..(header.symbolCount - 1) |-> i],
     dbuf |-> <<>>, dbufCount |-> 0, writeCount |-> 0, outOfBounds |-> FALSE,
     hh |-> 0, runPos |-> 0, symCount |-> 0, selector |-> 0]

\* the process ends in the middle of the pass
Crash(p, how) == [p EXCEPT !.phase = "crashed", !.err = how]

\* "if ( !( symCount-- ) )": the start of a group of GROUP_SIZE symbols
NextGroup(p) ==
    IF p.symCount # 0 THEN [p EXCEPT !.symCount = @ - 1]
    ELSE IF p.selector >= p.selectors_used
    THEN ThrowAt([p EXCEPT !.symCount = GROUP_SIZE - 1], "domain_error", "selector")
    ELSE [p EXCEPT !.symCount = GROUP_SIZE - 1, !.selector = @ + 1]

\* "if ( (unsigned)nextSym <= SYMBOL_RUNB )": one more symbol of a run
RunSymbol(p, nextSym) ==
    With(IF p.runPos = 0 THEN [p EXCEPT !.runPos = 1, !.hh = 0] ELSE p, LAMBDA p1 :
    IF p1.build = "trap"
          /\ ~(/\ ShlFits(p1.runPos, nextSym)
               /\ AddFits(p1.hh, ShlWrap(p1.runPos, nextSym))
               /\ ShlFits(p1.runPos, 1))
    THEN Crash(p1, "trap")
    ELSE [p1 EXCEPT !.hh = AddWrap(@, ShlWrap(p1.runPos, nextSym)),
                    !.runPos = ShlWrap(@, 1)])

\* the end of dbuf with n more copies of uc
AppendRun(dbuf, uc, n) == IF n = 0 THEN dbuf ELSE Append(dbuf, <<uc, n>>)

\* "if ( runPos )": the run is written to dbuf.  "while ( hh-- )" stores at
\* dbufCount, dbufCount + 1, ... until hh is 0: with hh below 0 or beyond
\* the room left, it fills dbuf and stores past its end
FlushRun(p) ==
    IF p.runPos = 0 THEN p
    ELSE With([p EXCEPT !.runPos = 0], LAMBDA p1 :
         IF p1.build = "trap" /\ ~AddFits(p1.dbufCount, p1.hh) THEN Crash(p1, "trap")
         ELSE IF AddWrap(p1.dbufCount, p1.hh) > DBUF_SIZE
         THEN ThrowAt(p1, "domain_error", "run")
         ELSE With(p1.symbolToByte[p1.mtfSymbol[0] + 1], LAMBDA uc :
              IF p1.build = "trap" /\ ~AddFits(p1.byteCount[uc], p1.hh)
              THEN Crash(p1, "trap")
              ELSE With([p1 EXCEPT !.byteCount[uc] = AddWrap(@, p1.hh)], LAMBDA p2 :
                   IF p2.hh >= 0 /\ p2.hh <= DBUF_SIZE - p2.dbufCount
                   THEN [p2 EXCEPT !.dbuf = AppendRun(@, uc, p2.hh),
                                   !.dbufCount = @ + p2.hh, !.hh = -1]
                   ELSE Crash([p2 EXCEPT
                                  !.dbuf = AppendRun(@, uc, DBUF_SIZE - p2.dbufCount),
                                  !.dbufCount = DBUF_SIZE,
                                  !.outOfBounds = TRUE], "OutOfBounds"))))

\* the end of the loop: "origPtr >= (unsigned)( writeCount = dbufCount )"
EndOfSymbols(p) ==
    With([p EXCEPT !.writeCount = p.dbufCount], LAMBDA p1 :
    IF p1.origPtr >= p1.writeCount THEN ThrowAt(p1, "domain_error", "origPtr")
    ELSE [p1 EXCEPT !.phase = "returned"])

\* a literal: its position in the MTF array goes to the front and its byte
\* is stored in dbuf
Literal(p, nextSym) ==
    IF p.dbufCount >= DBUF_SIZE THEN ThrowAt(p, "domain_error", "literal")
    ELSE With(p.mtfSymbol[nextSym - 1], LAMBDA mtf :
         With(p.symbolToByte[mtf + 1], LAMBDA uc :
         [p EXCEPT !.mtfSymbol = MoveToFront(@, nextSym - 1, mtf),
                   !.byteCount[uc] = @ + 1,
                   !.dbuf = AppendRun(@, uc, 1),
                   !.dbufCount = @ + 1]))

\* one pass of the loop of readBlockData; when the symbols end without the
\* terminating symbol the bit reader runs out of bytes
ReadSymbol(p) ==
    With(NextGroup(p), LAMBDA p1 :
    IF ~Ok(p1) THEN p1
    ELSE IF p1.pos > Len(p1.syms) THEN ThrowAt(p1, "domain_error", "getBits")
    ELSE With(p1.syms[p1.pos], LAMBDA nextSym :
         With([p1 EXCEPT !.pos = @ + 1], LAMBDA p2 :
         IF nextSym <= SYMBOL_RUNB THEN RunSymbol(p2, nextSym)
         ELSE With(FlushRun(p2), LAMBDA p3 :
              IF ~Ok(p3) THEN p3
              ELSE IF nextSym > p3.symbolCount THEN EndOfSymbols(p3)
              ELSE Literal(p3, nextSym)))))

(***************************************************************************)
(* What the file holds, independently of the decoder.                      *)
(***************************************************************************)
\* the concatenation of the plain texts of the data blocks among the first n
\* items of f
RECURSIVE PlainBefore(_, _)
PlainBefore(f, n) ==
    IF n = 0 THEN <<>>
    ELSE PlainBefore(f, n - 1) \o (IF f[n].type = "data" THEN f[n].plain ELSE <<>>)

\* the plain text of the whole file and its length
Plain(f) == PlainBefore(f, Len(f))

PlainSize(f) == Len(Plain(f))

\* the offset map of the file: each block's bit offset and the number of plain
\* bytes before it
TrueOffsets(f) ==
    {<<ItemStart(f, i), Len(PlainBefore(f, i - 1))>> :
        i \in {k \in 1..Len(f) : f[k].type # "hdr"}}

(***************************************************************************)
(* The state: the decoder d working on file FILES[fileId], the last call   *)
(* made on it and a summary of the calls made so far.  call.first says     *)
(* that the call was the first on the decoder, call.afterErr is the error  *)
(* the call before it ended with, and call.afterSeek the target of the     *)
(* seek( k, SEEK_SET ) that returned just before a read, or -1.            *)
(***************************************************************************)
VARIABLES fileId, d, call, hist

\* the state of the specification of the bit reader alone: the reader br and
\* the last call made on it
VARIABLES br, brCall

\* the state of the specification of the block header alone: the parse hdr of
\* the header that was made from the description hdrIn
VARIABLES hdr, hdrIn

\* the state of the specifications of one block's data alone: the symbol pass
\* pass of readBlockData, and the BurrowsWheelerTransformData bw on which
\* prepareBurrowsWheeler and the walk along the links of dbuf work
VARIABLES pass, bw

\* the state of the specification of the output loop alone: rle holds the
\* file made from a chain of bytes, the decoder reading it and the bytes
\* delivered by the reads made so far
VARIABLES rle

decoderVars == <<fileId, d, call, hist>>

bitReaderVars == <<br, brCall>>

headerVars == <<hdr, hdrIn>>

blockVars == <<pass, bw, rle>>

\* what the specification of the decoder leaves alone
componentVars == <<bitReaderVars, headerVars, blockVars>>

vars == <<decoderVars, componentVars>>

\* the bit reader of a specification that does not look at it
IdleBitReader ==
    /\ br = BitReader_new(<<>>)
    /\ brCall = [op |-> "none", arg |-> 0, start |-> 0, consumed |-> 0,
                 source |-> <<>>, memory |-> FALSE]

\* the header parse of a specification that does not look at it
IdleHeader ==
    /\ hdr = NewHeaderParse(BitReader_new(<<>>), 0)
    /\ hdrIn = <<>>

\* the symbol pass of a specification that does not look at it
IdlePass ==
    pass = NewSymbolPass([symbolCount |-> 0, symbolToByte |-> <<>>,
                          selectors_used |-> 0, origPtr |-> 0], <<>>, "wrap")

\* the BurrowsWheelerTransformData of a specification that does not look at it
IdleBw ==
    bw = [dbuf |-> <<>>, byteCount |-> <<>>, writeCount |-> 0, origPtr |-> 0,
          dataCRC |-> Ones32, writePos |-> 0, writeCurrent |-> 0, writeRun |-> 0,
          stored |-> <<>>, phase |-> "idle", steps |-> 0]

\* the output loop of a specification that does not look at it
IdleRle ==
    rle = [chain |-> <<>>, file |-> <<>>, d |-> NewReader, out |-> <<>>,
           arg |-> 0, reads |-> 0]

IdleBlock == IdlePass /\ IdleBw /\ IdleRle

\* the decoder of a specification that does not look at it
IdleDecoder ==
    /\ fileId = 1
    /\ d = NewReader
    /\ call = [op |-> "none", arg |-> 0, origin |-> "", afterSeek |-> -1,
               first |-> FALSE, afterErr |-> "none"]
    /\ hist = [sequential |-> TRUE, out |-> <<>>, calls |-> 0, poisoned |-> FALSE]

File == FILES[fileId]

\* the read budgets tried on file f
Budgets(f) == (1..MaxBudget) \cup {PlainSize(f), SIZE_MAX}

\* the (offset, origin) pairs tried by seek on file f
SeekTargets(f) ==
    {<<k, "SEEK_SET">> : k \in 0..(PlainSize(f) + 1)}
        \cup {<<-1, "SEEK_CUR">>, <<1, "SEEK_CUR">>, <<-1, "SEEK_END">>}

\* the maps given to setBlockOffsets: the map of the file, and the first entry
\* of it alone
OffsetMaps(f) ==
    {TrueOffsets(f), {e \in TrueOffsets(f) : \A o \in TrueOffsets(f) : e[1] <= o[1]}}

\* a call starts with no result and with nothing written by it
Begin(r) == [r EXCEPT !.err = "none", !.ret = 0, !.sink = <<>>]

Init ==
    /\ fileId \in 1..Len(FILES)
    /\ d = NewReader
    /\ call = [op |-> "new", arg |-> 0, origin |-> "", afterSeek |-> -1,
               first |-> FALSE, afterErr |-> "none"]
    /\ hist = [sequential |-> TRUE, out |-> <<>>, calls |-> 0, poisoned |-> FALSE]
    /\ IdleBitReader
    /\ IdleHeader
    /\ IdleBlock

\* reader.read( fd, buffer, n ): either sink; afterSeek is the target of the
\* seek( k, SEEK_SET ) that returned just before this call, or -1
ReadCall(n, outputBuffer) ==
    /\ ~hist.poisoned
    /\ d' = Read(File, Begin(d), IF outputBuffer THEN -1 ELSE 1, outputBuffer, n)
    /\ call' = [op |-> "read", arg |-> n, origin |-> "",
                afterSeek |-> IF call.op = "seek" /\ call.origin = "SEEK_SET" /\ Ok(d)
                              THEN call.arg ELSE -1,
                first |-> call.op = "new", afterErr |-> d.err]
    /\ hist' = [hist EXCEPT !.out = IF hist.sequential THEN @ \o d'.sink ELSE <<>>,
                            !.poisoned = ~Ok(d')]
    /\ UNCHANGED <<fileId, componentVars>>

\* reader.seek( offset, origin )
SeekCall(offset, origin) ==
    /\ ~hist.poisoned
    /\ hist.calls < MaxCalls
    /\ d' = Seek(File, Begin(d), offset, origin)
    /\ call' = [op |-> "seek", arg |-> offset, origin |-> origin, afterSeek |-> -1,
                first |-> call.op = "new", afterErr |-> d.err]
    /\ hist' = [sequential |-> FALSE, out |-> <<>>, calls |-> hist.calls + 1,
                poisoned |-> ~Ok(d')]
    /\ UNCHANGED <<fileId, componentVars>>

\* reader.blockOffsets(); it is the one call also made on a decoder that has
\* thrown, to look at the entries collected so far
BlockOffsetsCall ==
    /\ hist.calls < MaxCalls
    /\ d' = BlockOffsets(File, Begin(d))
    /\ call' = [op |-> "blockOffsets", arg |-> 0, origin |-> "", afterSeek |-> -1,
                first |-> call.op = "new", afterErr |-> d.err]
    /\ hist' = [sequential |-> FALSE, out |-> <<>>, calls |-> hist.calls + 1,
                poisoned |-> hist.poisoned \/ ~Ok(d')]
    /\ UNCHANGED <<fileId, componentVars>>

\* reader.setBlockOffsets( offsets ); its exception leaves the decoder usable
SetBlockOffsetsCall(offsets) ==
    /\ ~hist.poisoned
    /\ hist.calls < MaxCalls
    /\ d' = SetBlockOffsets(Begin(d), offsets)
    /\ call' = [op |-> "setBlockOffsets", arg |-> Cardinality(offsets), origin |-> "",
                afterSeek |-> -1, first |-> call.op = "new", afterErr |-> d.err]
    /\ hist' = [sequential |-> FALSE, out |-> <<>>, calls |-> hist.calls + 1,
                poisoned |-> FALSE]
    /\ UNCHANGED <<fileId, componentVars>>

Next ==
    \/ \E n \in Budgets(File), outputBuffer \in BOOLEAN : ReadCall(n, outputBuffer)
    \/ \E t \in SeekTargets(File) : SeekCall(t[1], t[2])
    \/ BlockOffsetsCall
    \/ \E offsets \in OffsetMaps(File) : SetBlockOffsetsCall(offsets)

Spec == Init /\ [][Next]_vars

(***************************************************************************)
(* The bit reader alone: a reader of one of a few sources, and reads of    *)
(* many widths and seeks to many positions made on it.  A reader that has  *)
(* thrown or died is not used again.  brCall.source is the bytes the       *)
(* reader was made for, brCall.memory says that it was made from a buffer, *)
(* brCall.start is the position the reader was put at by its construction  *)
(* or its last seek and brCall.consumed the sum of the widths read since.  *)
(***************************************************************************)
\* the sources: the bytes of a file or of a buffer
BIT_SOURCES ==
    {<<165, 90, 255, 0, 129, 60>>, <<77, 178, 1, 254, 19>>, <<201>>}

\* the widths read: those the decoder reads, and 25 and 31
WIDTHS == {1, 2, 3, 5, 8, 15, 16, 24, 25, 31, 32}

\* the seek targets: the first, the second and the last bit of every byte of
\* the source and of the byte behind its end
SeekOffsets(bytes) == {k \in 0..(Len(bytes) * 8 + 7) : k % 8 \in {0, 1, 7}}

BitReaderInit ==
    /\ IdleDecoder
    /\ IdleHeader
    /\ IdleBlock
    /\ \E b \in BIT_SOURCES :
          \/ /\ br = BitReader_new(b)
             /\ brCall = [op |-> "new", arg |-> 0, start |-> 0, consumed |-> 0,
                          source |-> b, memory |-> FALSE]
          \/ /\ br = BitReader_fromBuffer(b)
             /\ brCall = [op |-> "new", arg |-> 0, start |-> 0, consumed |-> 0,
                          source |-> b, memory |-> TRUE]

\* reader.read( n )
BitReadCall(n) ==
    /\ Ok(br)
    /\ br' = BitReader_read(br, n)
    /\ brCall' = [brCall EXCEPT !.op = "read", !.arg = n, !.consumed = @ + n]
    /\ UNCHANGED <<decoderVars, headerVars, blockVars>>

\* reader.seek( offsetBits )
BitSeekCall(offsetBits) ==
    /\ Ok(br)
    /\ br' = BitReader_seek(br, offsetBits)
    /\ brCall' = [brCall EXCEPT !.op = "seek", !.arg = offsetBits,
                                !.start = offsetBits, !.consumed = 0]
    /\ UNCHANGED <<decoderVars, headerVars, blockVars>>

BitReaderNext ==
    \/ \E n \in WIDTHS : BitReadCall(n)
    \/ \E k \in SeekOffsets(brCall.source) : BitSeekCall(k)

BitReaderSpec == BitReaderInit /\ [][BitReaderNext]_vars


(***************************************************************************)
(* The block header alone: readBlockHeader, statement by statement, on the *)
(* bits of a header that is assembled from a description: the magic, the   *)
(* randomised bit, origPtr, the set of the bytes in use, groupCount,       *)
(* selectors_used, the run lengths of the selector codes and, for every    *)
(* group, the start length and the +1/-1 steps before each symbol's        *)
(* length.  The descriptions include the ones the parser has to reject.    *)
(***************************************************************************)
\* r 1-bits and a 0-bit
UnaryBits(r) == [i \in 1..(r + 1) |-> IF i <= r THEN 1 ELSE 0]

\* the code of one length: 10 for +1, 11 for -1, then 0
RECURSIVE DeltaBits(_)
DeltaBits(steps) ==
    IF steps = <<>> THEN <<0>>
    ELSE (IF Head(steps) = 1 THEN <<1, 0>> ELSE <<1, 1>>) \o DeltaBits(Tail(steps))

\* the concatenation of the sequences F(s[1]), F(s[2]), ..
RECURSIVE FlatMap(_, _)
FlatMap(F(_), s) == IF s = <<>> THEN <<>> ELSE F(Head(s)) \o FlatMap(F, Tail(s))

\* the mapping table of the bytes in use: the index and the 16-bit maps
MapBits(used) ==
    [i \in 1..16 |-> IF \E b \in used : b \div 16 = i - 1 THEN 1 ELSE 0]
        \o FlatMap(LAMBDA i : IF \E b \in used : b \div 16 = i
                              THEN [j \in 1..16 |-> IF 16 * i + j - 1 \in used
                                                    THEN 1 ELSE 0]
                              ELSE <<>>,
                   [i \in 1..16 |-> i - 1])

\* the bits of the Huffman group g: the start length and the lengths' codes
GroupBits(g) == BitsOf(g.start, 5) \o FlatMap(DeltaBits, g.deltas)

\* the bits of the header described by p
HeaderBits(p) ==
    BitsOf(p.magic[1], 24) \o BitsOf(p.magic[2], 24) \o [i \in 1..32 |-> 0]
        \o <<p.randomized>> \o BitsOf(p.origPtr, 24) \o MapBits(p.used)
        \o BitsOf(p.groupCount, 3) \o BitsOf(p.selectors_used, 15)
        \o FlatMap(UnaryBits, p.runs) \o FlatMap(GroupBits, p.lens)

\* the bytes of a file that starts with the bits, filled up with zeros to a
\* whole byte, and goes on with two bytes of zeros
RECURSIVE Pack(_)
Pack(bits) ==
    IF Len(bits) = 0 THEN <<0, 0>>
    ELSE IF Len(bits) < 8 THEN Pack(bits \o [i \in 1..(8 - Len(bits)) |-> 0])
    ELSE <<BitsValue(bits, 1, 8)>> \o Pack(SubSeq(bits, 9, Len(bits)))

\* a group whose three symbols have the lengths 1, 2, 2
PlainGroup == [start |-> 1, deltas |-> <<<<>>, <<1>>, <<>>>>]

\* a header the parser accepts: one byte in use, two groups, one selector
PlainHeader ==
    [magic |-> MAGIC_PI, randomized |-> 0, origPtr |-> 0, used |-> {65},
     groupCount |-> 2, selectors_used |-> 1, runs |-> <<0>>,
     lens |-> <<PlainGroup, PlainGroup>>]

\* the values tried for origPtr
ORIG_PTRS == {0, 1, DBUF_SIZE - 1, DBUF_SIZE, DBUF_SIZE + 1, 16777215}

\* headers that differ in the magic, the randomised bit, origPtr and the bytes
\* in use
FixedPartHeaders ==
    {[PlainHeader EXCEPT !.magic = m, !.randomized = r, !.origPtr = o, !.used = u] :
        m \in {MAGIC_PI, MAGIC_SQRT_PI, <<3227993, 0>>}, r \in {0, 1},
        o \in ORIG_PTRS, u \in {{65}, {0, 65, 255}}}

\* the run lengths tried for the selectors of a header of gc groups
SelectorRuns(gc) == {0, 1, gc - 1, gc, gc + 1}

\* headers that differ in groupCount, selectors_used and the selector codes
SelectorHeaders ==
    UNION {{[PlainHeader EXCEPT !.groupCount = gc, !.selectors_used = Len(runs),
                                !.runs = runs,
                                !.lens = [j \in 1..gc |-> PlainGroup]] :
               runs \in UNION {[1..n -> SelectorRuns(gc)] : n \in 0..2}} :
           gc \in {2, 3, MAX_GROUPS}}
      \cup {[PlainHeader EXCEPT !.groupCount = gc] : gc \in {0, 1, 7}}

\* the steps tried before a length
DELTAS == {<<>>, <<1>>, <<-1>>, <<1, 1>>, <<-1, -1>>, <<1, -1>>}

\* headers that differ in the lengths of the first group and, by the code of
\* the selector, in the bit the lengths start at
LengthHeaders ==
    {[PlainHeader EXCEPT !.runs = <<r>>,
                         !.lens[1] = [start |-> s, deltas |-> <<d1, d2, d3>>]] :
        r \in {0, 1}, s \in {0, 1, 2, 19, 20, 21, 31},
        d1 \in DELTAS, d2 \in DELTAS, d3 \in {<<>>, <<1>>}}

HEADER_INPUTS == FixedPartHeaders \cup SelectorHeaders \cup LengthHeaders

\* the values tried for what a fresh BlockHeader holds where it is not
\* initialised
GARBAGE == {0, 3, 200}

HeaderInit ==
    /\ IdleDecoder
    /\ IdleBitReader
    /\ IdleBlock
    /\ hdrIn \in HEADER_INPUTS
    /\ \E garbage \in GARBAGE :
          hdr = NewHeaderParse(BitReader_new(Pack(HeaderBits(hdrIn))), garbage)

ReadMagicStep ==
    /\ hdr.phase = "magic"
    /\ hdr' = ReadMagic(hdr)
    /\ UNCHANGED <<hdrIn, decoderVars, bitReaderVars, blockVars>>

ReadOrigPtrStep ==
    /\ hdr.phase = "origPtr"
    /\ hdr' = ReadOrigPtr(hdr)
    /\ UNCHANGED <<hdrIn, decoderVars, bitReaderVars, blockVars>>

ReadSymbolMapStep ==
    /\ hdr.phase = "symbolMap"
    /\ hdr' = ReadSymbolMap(hdr)
    /\ UNCHANGED <<hdrIn, decoderVars, bitReaderVars, blockVars>>

ReadGroupCountStep ==
    /\ hdr.phase = "groupCount"
    /\ hdr' = ReadGroupCount(hdr)
    /\ UNCHANGED <<hdrIn, decoderVars, bitReaderVars, blockVars>>

ReadSelectorStep ==
    /\ hdr.phase = "selector"
    /\ hdr' = ReadSelector(hdr)
    /\ UNCHANGED <<hdrIn, decoderVars, bitReaderVars, blockVars>>

ReadGroupStartStep ==
    /\ hdr.phase = "groupStart"
    /\ hdr' = ReadGroupStart(hdr)
    /\ UNCHANGED <<hdrIn, decoderVars, bitReaderVars, blockVars>>

ReadLengthStep ==
    /\ hdr.phase = "length"
    /\ hdr' = ReadLength(hdr)
    /\ UNCHANGED <<hdrIn, decoderVars, bitReaderVars, blockVars>>

HeaderNext ==
    \/ ReadMagicStep
    \/ ReadOrigPtrStep
    \/ ReadSymbolMapStep
    \/ ReadGroupCountStep
    \/ ReadSelectorStep
    \/ ReadGroupStartStep
    \/ ReadLengthStep

HeaderSpec == HeaderInit /\ [][HeaderNext]_vars

(***************************************************************************)
(* The symbol pass alone, on sequences of symbols: runs of RUNA and RUNB   *)
(* of lengths around the width of int and around the capacity of dbuf,     *)
(* before and after literals, and groups of symbols without a selector.    *)
(***************************************************************************)
\* k times the symbol s
Repeat(s, k) == [i \in 1..k |-> s]

\* the run of n >= 1 copies as RUNA and RUNB symbols, lowest digit first
RECURSIVE RunWord(_)
RunWord(n) ==
    IF n = 0 THEN <<>>
    ELSE IF n % 2 = 1 THEN <<0>> \o RunWord((n - 1) \div 2)
    ELSE <<1>> \o RunWord((n - 2) \div 2)

\* the header fields the pass reads: three byte values are in use, the
\* symbols 2 and 3 are literals and 4 ends the block
PassHeader(selectors_used, origPtr) ==
    [symbolCount |-> 3, symbolToByte |-> <<10, 20, 30>>,
     selectors_used |-> selectors_used, origPtr |-> origPtr]

RUN_LENGTHS == {0, 1, 2, 29, 30, 31, 32, 33}

RUN_SIZES == {1, 2, 3, DBUF_SIZE - 1, DBUF_SIZE, DBUF_SIZE + 1}

SYMBOL_INPUTS ==
    {prefix \o Repeat(s, k) \o suffix :
        prefix \in {<<>>, <<2>>, <<2, 3>>}, s \in {0, 1}, k \in RUN_LENGTHS,
        suffix \in {<<4>>, <<3, 4>>}}
    \cup {prefix \o RunWord(n) \o suffix :
        prefix \in {<<>>, <<2>>}, n \in RUN_SIZES, suffix \in {<<4>>, <<3, 4>>, <<>>}}
    \cup {Repeat(2, k) \o <<4>> : k \in {GROUP_SIZE - 1, GROUP_SIZE, GROUP_SIZE + 1}}

SymbolInit ==
    /\ IdleDecoder
    /\ IdleBitReader
    /\ IdleHeader
    /\ \E syms \in SYMBOL_INPUTS, build \in {"wrap", "trap"},
          selectors_used \in {1, 2}, origPtr \in {0, 1} :
          pass = NewSymbolPass(PassHeader(selectors_used, origPtr), syms, build)
    /\ IdleBw
    /\ IdleRle

ReadSymbolStep ==
    /\ pass.phase = "symbols"
    /\ pass' = ReadSymbol(pass)
    /\ UNCHANGED <<bw, rle, decoderVars, bitReaderVars, headerVars>>

SymbolNext == ReadSymbolStep

SymbolSpec == SymbolInit /\ [][SymbolNext]_vars

(***************************************************************************)
(* prepareBurrowsWheeler and the walk along the links alone, on the blocks *)
(* of up to MaxBlock bytes that readBlockData can leave: dbuf, its         *)
(* byteCount and an origPtr below writeCount.                              *)
(***************************************************************************)
MaxBlock == 4

BLOCK_BYTES == {0, 7, 255}

\* the sequences of 1 to n bytes of BLOCK_BYTES
RECURSIVE BlocksUpTo(_)
BlocksUpTo(n) ==
    IF n = 0 THEN {}
    ELSE {<<b>> : b \in BLOCK_BYTES}
             \cup BlocksUpTo(n - 1)
             \cup {Append(s, b) : s \in BlocksUpTo(n - 1), b \in BLOCK_BYTES}

\* the BurrowsWheelerTransformData as readBlockData returns it; stored keeps
\* what the symbol pass stored in dbuf
FilledBlock(dbuf, origPtr) ==
    [dbuf |-> dbuf, byteCount |-> [b \in 1..256 |-> Occurrences(dbuf, b - 1)],
     writeCount |-> Len(dbuf), origPtr |-> origPtr,
     dataCRC |-> Ones32, writePos |-> 0, writeCurrent |-> 0, writeRun |-> 0,
     stored |-> dbuf, phase |-> "filled", steps |-> 0]

BwtInit ==
    /\ IdleDecoder
    /\ IdleBitReader
    /\ IdleHeader
    /\ IdlePass
    /\ IdleRle
    /\ \E dbuf \in BlocksUpTo(MaxBlock) : \E origPtr \in 0..(Len(dbuf) - 1) :
          bw = FilledBlock(dbuf, origPtr)

PrepareStep ==
    /\ bw.phase = "filled"
    /\ bw' = [PrepareBurrowsWheeler(bw) EXCEPT !.phase = "prepared"]
    /\ UNCHANGED <<pass, rle, decoderVars, bitReaderVars, headerVars>>

FollowStep ==
    /\ bw.phase = "prepared"
    /\ bw.steps < bw.writeCount
    /\ bw' = [FollowLink(bw) EXCEPT !.steps = @ + 1]
    /\ UNCHANGED <<pass, rle, decoderVars, bitReaderVars, headerVars>>

BwtNext == PrepareStep \/ FollowStep

BwtSpec == BwtInit /\ [][BwtNext]_vars

(***************************************************************************)
(* The output loop alone, on files of one block made from a chain of       *)
(* bytes: the block is the Burrows-Wheeler transform of the chain, so that *)
(* the walk along the links of dbuf goes through the chain, and the stored *)
(* CRCs are those of the text the chain stands for.  The reads have        *)
(* budgets that interrupt the loop at every place.                         *)
(***************************************************************************)
\* the chain s read from place r on, 0 <= r < Len(s), and around
Rotation(s, r) == [i \in 1..Len(s) |-> s[((r + i - 1) % Len(s)) + 1]]

\* a comes before b in the order of the dictionary
Before(a, b) ==
    \E k \in 1..Len(a) : a[k] < b[k] /\ \A j \in 1..(k - 1) : a[j] = b[j]

\* the row of the rotation r among the sorted rotations of s, from 0
RowOf(s, r) ==
    Cardinality({q \in 0..(Len(s) - 1) :
                    \/ Before(Rotation(s, q), Rotation(s, r))
                    \/ Rotation(s, q) = Rotation(s, r) /\ q < r})

\* the last column of the sorted rotations: what readBlockData leaves in dbuf
Transform(s) ==
    [k \in 1..Len(s) |->
        Rotation(s, CHOOSE r \in 0..(Len(s) - 1) : RowOf(s, r) = k - 1)[Len(s)]]

\* the text the first n bytes of the chain stand for: out, with the byte last
\* and the number run of equal bytes that end the text without a count
RECURSIVE Expand(_, _)
Expand(chain, n) ==
    IF n = 0 THEN [out |-> <<>>, last |-> -1, run |-> 0]
    ELSE With(Expand(chain, n - 1), LAMBDA e :
         IF e.run = 4
         THEN [out |-> e.out \o [i \in 1..chain[n] |-> e.last], last |-> -1, run |-> 0]
         ELSE [out |-> Append(e.out, chain[n]), last |-> chain[n],
               run |-> IF chain[n] = e.last THEN e.run + 1 ELSE 1])

Rle2Decode(chain) == Expand(chain, Len(chain)).out

\* the four bytes of a uint32_t as they are stored
Bytes32(a) == [k \in 1..4 |-> BitsValue(a, 8 * k - 7, 8 * k)]

\* the file of one stream with the chain as its only block
ChainFile(chain) ==
    << Hdr(9),
       Data(Bytes32(BlockCrc(Rle2Decode(chain))), RowOf(chain, 0), Transform(chain),
            176, Len(chain) + 2, Rle2Decode(chain)),
       Eos(Bytes32(BlockCrc(Rle2Decode(chain)))) >>

MaxChain == 5

CHAIN_BYTES == {0, 1, 3}

\* the chains of 1 to n bytes of CHAIN_BYTES
RECURSIVE ChainsUpTo(_)
ChainsUpTo(n) ==
    IF n = 0 THEN {}
    ELSE {<<b>> : b \in CHAIN_BYTES}
             \cup ChainsUpTo(n - 1)
             \cup {Append(s, b) : s \in ChainsUpTo(n - 1), b \in CHAIN_BYTES}

\* a run of k bytes, what follows it, a second run and what follows that
RunChains ==
    {[i \in 1..k |-> b] \o <<n>> \o [i \in 1..m |-> c] \o t :
        b \in {1, 3}, k \in {4, 5}, n \in CHAIN_BYTES, c \in {1, 3}, m \in {0, 1, 3, 4},
        t \in {<<>>, <<0>>, <<3>>}}

CHAINS == ChainsUpTo(MaxChain) \cup RunChains

OutputInit ==
    /\ IdleDecoder
    /\ IdleBitReader
    /\ IdleHeader
    /\ IdlePass
    /\ IdleBw
    /\ \E chain \in CHAINS :
          rle = [chain |-> chain, file |-> ChainFile(chain), d |-> NewReader,
                 out |-> <<>>, arg |-> 0, reads |-> 0]

\* reader.read( fd, buffer, n ) on the file of the chain, until a read has
\* returned 0 or thrown
ReadChainCall(n, outputBuffer) ==
    /\ Ok(rle.d)
    /\ rle.reads = 0 \/ rle.d.ret # 0
    /\ \E r \in {Read(rle.file, Begin(rle.d), 1, outputBuffer, n)} :
          rle' = [rle EXCEPT !.d = r, !.out = @ \o r.sink, !.arg = n,
                             !.reads = @ + 1]
    /\ UNCHANGED <<pass, bw, decoderVars, bitReaderVars, headerVars>>

OutputNext ==
    \E n \in (1..MaxBudget) \cup {SIZE_MAX}, outputBuffer \in BOOLEAN :
        ReadChainCall(n, outputBuffer)

OutputSpec == OutputInit /\ [][OutputNext]_vars

(***************************************************************************)
(* What the claims are stated with.                                        *)
(***************************************************************************)
\* one unbounded read( fd ) on a fresh decoder of f
FullDecode(f) == Read(f, NewReader, 1, FALSE, SIZE_MAX)

\* the bytes delivered by it
FullOutput(f) == FullDecode(f).sink

\* the set of the elements of the sequence s
Range(s) == {s[k] : k \in 1..Len(s)}

\* the items of s that are data blocks of f, in order
DataItems(f, s) == SelectSeq(s, LAMBDA i : f[i].type = "data")

\* the data blocks of f whose stored CRC is not the CRC of their bytes
CorruptBlocks(f) ==
    {i \in 1..Len(f) : f[i].type = "data" /\ U32(f[i].crc) # BlockCrc(f[i].plain)}

\* the files made of two streams
CONCATENATED_FILES == {5, 6, 7}

\* the decoded-byte values of a map in the order of its bit offsets
RECURSIVE ValuesInOrder(_)
ValuesInOrder(map) ==
    IF map = {} THEN <<>>
    ELSE With(CHOOSE e \in map : \A o \in map : e[1] <= o[1], LAMBDA e :
         <<e[2]>> \o ValuesInOrder(map \ {e}))

\* the entry of map that follows entry e in the order of the bit offsets
Successors(map, e) ==
    {o \in map : o[1] > e[1] /\ \A m \in map : m[1] > e[1] => o[1] <= m[1]}

\* only read calls were made so far, all on a file with correct CRCs
SequentialOnValid == hist.sequential /\ fileId \in VALID_FILES

(***************************************************************************)
(* The claims.                                                             *)
(***************************************************************************)
\* C1: checkpoint transparency.  On a valid file, when successive read calls
\* with positive budgets were issued until read returned 0, the concatenation
\* of the bytes delivered equals the bytes of one unbounded read on a fresh
\* decoder.
C1_CheckpointTransparency ==
    (SequentialOnValid /\ call.op = "read" /\ Ok(d) /\ d.ret = 0)
        => hist.out = FullOutput(File)

\* C1: a run of reads with budget 1 on the file whose only block ends with a
\* repeat run has returned 0 after delivering five of the six bytes.
C1_LostBytes ==
    /\ fileId = 2 /\ hist.sequential /\ call.op = "read" /\ call.arg = 1
    /\ Ok(d) /\ d.ret = 0
    /\ Len(hist.out) = 5 /\ Len(FullOutput(File)) = 6
    /\ Len(d.m_decodedBuffer) = 1

\* C2: seek consistency.  On a valid file of decoded size S, a read( n ) that
\* follows a successful seek( k, SEEK_SET ) with k <= S succeeds and delivers
\* the bytes k .. k+n-1 of the full decode, up to its end when the read runs
\* past it.
C2_SeekConsistency ==
    (fileId \in VALID_FILES /\ call.op = "read" /\ call.afterSeek >= 0
        /\ call.afterSeek <= PlainSize(File))
        => /\ Ok(d)
           /\ d.sink = SubSeq(FullOutput(File), call.afterSeek + 1,
                              IF call.arg >= PlainSize(File) - call.afterSeek
                              THEN PlainSize(File)
                              ELSE call.afterSeek + call.arg)

\* C2: the read after seek( 0 ) that runs past the end of the single-block file
\* has failed at the end-of-stream block with a stream CRC mismatch.
C2_SeekThenReadFails ==
    /\ fileId = 1 /\ call.op = "read" /\ call.afterSeek = 0
    /\ call.arg = SIZE_MAX /\ d.err = "StreamCrcMismatch"

\* C3: on a valid file every entry of the offset map has as its value the
\* number of bytes of the full output that precede the block at its bit
\* offset, and a complete map ends with the total size, which size() returns.
C3_MapValues ==
    fileId \in VALID_FILES
        => /\ d.m_blockToDataOffsets \subseteq TrueOffsets(File)
           /\ d.m_blockToDataOffsetsComplete => Size(d).ret = PlainSize(File)

\* C3: reads with budget 1 have completed the map of the file whose only block
\* ends with a repeat run, and size() returns 5 for its 6 bytes.
C3_WrongSize ==
    /\ fileId = 2 /\ hist.sequential /\ d.m_blockToDataOffsetsComplete
    /\ Size(d).ret = 5 /\ PlainSize(File) = 6

\* the map returned by a successful blockOffsets() on a valid file
ReturnedMap == fileId \in VALID_FILES /\ call.op = "blockOffsets" /\ Ok(d)

\* C4: block map monotonicity as the code has it.  In the map returned by
\* blockOffsets() for a valid file the decoded-byte offsets do not decrease
\* with the bit offsets, two consecutive entries have the same decoded-byte
\* offset only when the first of them is an end-of-stream block (the next
\* stream starts where the last one ended), the map is complete and its final
\* decoded-byte offset is what size() returns.
C4_MapMonotone ==
    ReturnedMap
        => /\ \A e \in d.m_blockToDataOffsets :
                \A o \in Successors(d.m_blockToDataOffsets, e) :
                    /\ e[2] <= o[2]
                    /\ e[2] = o[2] => File[ItemAt(File, e[1])].type = "eos"
           /\ Size(d).err = "none"
           /\ Size(d).ret = ValuesInOrder(d.m_blockToDataOffsets)[
                                Cardinality(d.m_blockToDataOffsets)]

\* C4: blockOffsets() has returned the map of the two-block file, three
\* entries with the values 0, 8 and 9.
C4_Witness ==
    /\ ReturnedMap /\ fileId = 3
    /\ ValuesInOrder(d.m_blockToDataOffsets) = <<0, 8, 9>>

\* C4 as the spec states it: the decoded-byte offsets of the returned map are
\* strictly increasing.
C4_StrictlyIncreasing ==
    ReturnedMap
        => \A e \in d.m_blockToDataOffsets :
               \A o \in Successors(d.m_blockToDataOffsets, e) : e[2] < o[2]

\* C5: a read with a budget >= 1 returns 0 if and only if every byte of the
\* decoded stream was delivered by the reads before it.
C5_ZeroIffAllDelivered ==
    (SequentialOnValid /\ call.op = "read" /\ Ok(d))
        => ((d.ret = 0) <=> (Len(hist.out) - Len(d.sink) = PlainSize(File)))

\* C5: a read( 1 ) has returned 0 although only five of the six bytes of the
\* file were delivered before it, and eof() is true.
C5_ZeroTooEarly ==
    /\ fileId = 2 /\ hist.sequential /\ call.op = "read" /\ call.arg = 1
    /\ Ok(d) /\ d.ret = 0 /\ d.sink = <<>>
    /\ Len(hist.out) = PlainSize(File) - 1 /\ Eof(d)

\* C6: concatenation.  One unbounded read on a fresh decoder of a file made of
\* two streams succeeds and delivers the text of the first stream followed by
\* the text of the second; the calculated stream CRC at the end is the stored
\* CRC of the second stream alone; the offset map is complete and has one
\* entry per data block and per end-of-stream block, each with the number of
\* bytes before it, for the streams "A" and "B" the values 0, 1, 1, 2.
C6_Concatenation ==
    (fileId \in CONCATENATED_FILES /\ call.op = "read" /\ call.first
        /\ call.arg = SIZE_MAX)
        => /\ Ok(d)
           /\ d.sink = Plain(File)
           /\ d.ret = PlainSize(File)
           /\ d.m_calculatedStreamCRC = U32(File[Len(File)].crc)
           /\ d.m_blockToDataOffsetsComplete
           /\ d.m_blockToDataOffsets = TrueOffsets(File)
           /\ Cardinality(d.m_blockToDataOffsets)
                  = Cardinality({i \in 1..Len(File) : File[i].type # "hdr"})
           /\ fileId = 5 => ValuesInOrder(d.m_blockToDataOffsets) = <<0, 1, 1, 2>>

\* C6: the unbounded read of the streams "A" and "B" has delivered "AB" and
\* parsed both end-of-stream blocks.
C6_Witness ==
    /\ fileId = 5 /\ call.op = "read" /\ call.first /\ call.arg = SIZE_MAX
    /\ d.sink = <<65, 66>> /\ d.parsed = <<2, 3, 5, 6>> /\ Eof(d)

\* C7: while a valid file is decoded sequentially with any read budgets, no
\* call fails and the CRCs folded into the stream CRC are those of the data
\* blocks parsed so far, once each and in block order, the block in progress
\* (writeCount > 0) excluded; at an end-of-stream block the calculated stream
\* CRC is the stored one, and at the end of the file it is the one of a single
\* unbounded read.
C7_FoldOncePerBlock ==
    SequentialOnValid
        => /\ Ok(d)
           /\ d.folds =
                  IF d.m_lastHeader.writeCount = 0
                  THEN DataItems(File, d.parsed)
                  ELSE SubSeq(DataItems(File, d.parsed), 1,
                              Len(DataItems(File, d.parsed)) - 1)
           /\ Eos_(d) => d.m_calculatedStreamCRC = U32(File[d.parsed[Len(d.parsed)]].crc)
           /\ Eof(d) => d.m_calculatedStreamCRC = FullDecode(File).m_calculatedStreamCRC

\* C7: budgeted reads have decoded the two-block file to its end: a block was
\* interrupted on the way and both block CRCs are folded.
C7_Witness ==
    /\ fileId = 3 /\ hist.sequential /\ call.op = "read" /\ call.arg = 1
    /\ Eof(d) /\ d.folds = <<2, 3>> /\ Len(hist.out) > 1

\* C8: while a file is read sequentially, a data block whose stored CRC is not
\* the CRC of its bytes has been decoded to its end exactly when the read has
\* failed with the block CRC mismatch; the failing block is then the last
\* block whose header was parsed, and the bytes produced since its header are
\* the bytes of that block and no more.
C8_BlockCrcMismatch ==
    hist.sequential
        => \A i \in CorruptBlocks(File) :
               /\ (i \in Range(d.folds)) <=> (d.err = "BlockCrcMismatch")
               /\ d.err = "BlockCrcMismatch"
                      => /\ d.parsed[Len(d.parsed)] = i
                         /\ d.emitted = Len(File[i].plain)
                         /\ d.folds[Len(d.folds)] = i

\* C8: the read has failed at the end of the corrupted second block, after the
\* first block was decoded and before the third was parsed.
C8_Witness ==
    /\ fileId = 9 /\ hist.sequential /\ d.err = "BlockCrcMismatch"
    /\ d.folds = <<2, 3>> /\ d.parsed = <<2, 3>> /\ d.emitted = 1

\* C9: when only reads were made and the last one failed, the offset map is
\* not marked complete, so that size() fails.
C9_NotCompleteAfterError ==
    (hist.sequential /\ call.op = "read" /\ ~Ok(d))
        => (~d.m_blockToDataOffsetsComplete /\ Size(d).err # "none")

\* C9: the read has failed with the stream CRC mismatch at the final
\* end-of-stream block, and the map is marked complete and size() returns.
C9_CompleteAfterError ==
    /\ fileId = 10 /\ hist.sequential /\ call.op = "read"
    /\ d.err = "StreamCrcMismatch"
    /\ d.m_blockToDataOffsetsComplete /\ Size(d) = [err |-> "none", ret |-> 2]

\* C10: blockOffsets() called after a read that failed with the CRC mismatch
\* of the first data block raises no error, produces no output and returns a
\* map with at most the entries of the blocks parsed up to the failing one.
C10_MapAfterCrcError ==
    (call.op = "blockOffsets" /\ call.afterErr = "BlockCrcMismatch"
        /\ 2 \in CorruptBlocks(File))
        => /\ Ok(d)
           /\ d.sink = <<>>
           /\ d.m_blockToDataOffsets \subseteq {<<ItemStart(File, 2), 0>>}

\* C10: blockOffsets() after the failed read of the file whose first block is
\* corrupted has failed with the block CRC mismatch again.
C10_BlockOffsetsFails ==
    /\ fileId = 8 /\ call.op = "blockOffsets" /\ call.afterErr = "BlockCrcMismatch"
    /\ d.err = "BlockCrcMismatch"

\* C11: setBlockOffsets with a map of fewer than two entries throws and leaves
\* the stored map and its completeness flag as they were; with two or more
\* entries it stores the given map and marks it complete, so that size()
\* returns.  After a successful setBlockOffsets, blockOffsets() changes
\* nothing in the decoder, and seek leaves the map alone and parses at most the
\* header of the one block it seeks into instead of decoding the file.
C11_SetBlockOffsets ==
    [][/\ call'.op = "setBlockOffsets"
           => IF call'.arg < 2
              THEN /\ d'.err = "invalid_argument"
                   /\ d'.m_blockToDataOffsets = d.m_blockToDataOffsets
                   /\ d'.m_blockToDataOffsetsComplete = d.m_blockToDataOffsetsComplete
              ELSE /\ Ok(d')
                   /\ d'.m_blockToDataOffsetsComplete
                   /\ d'.m_blockToDataOffsets \in
                          {m \in OffsetMaps(File) : Cardinality(m) = call'.arg}
                   /\ Size(d').err = "none"
       /\ (call.op = "setBlockOffsets" /\ Ok(d) /\ call'.op = "blockOffsets")
           => d' = Begin(d)
       /\ (call.op = "setBlockOffsets" /\ Ok(d) /\ call'.op = "seek")
           => /\ d'.m_blockToDataOffsets = d.m_blockToDataOffsets
              /\ d'.m_blockToDataOffsetsComplete
              /\ Len(d'.parsed) <= Len(d.parsed) + 1]_vars

\* C11: setBlockOffsets with a one-entry map has thrown on a decoder that had
\* collected two entries of a map not yet complete, and both are still there.
C11_Witness ==
    /\ call.op = "setBlockOffsets" /\ call.arg = 1 /\ d.err = "invalid_argument"
    /\ Cardinality(d.m_blockToDataOffsets) = 2 /\ ~d.m_blockToDataOffsetsComplete

\* a decoding call: read, seek or blockOffsets (tell and size are const
\* members and change nothing)
DecodingCall(c) == c.op \in {"read", "seek", "blockOffsets"}

\* C12: a read, seek or blockOffsets call removes and changes no entry of the
\* offset map and adds entries only behind the existing ones (at larger bit
\* offsets); once the map is marked complete, which happens when the
\* end-of-stream block at the end of the file is parsed, no such call changes
\* the map or the mark.
C12_AppendOnly ==
    [][DecodingCall(call')
          => /\ d.m_blockToDataOffsets \subseteq d'.m_blockToDataOffsets
             /\ \A n \in d'.m_blockToDataOffsets \ d.m_blockToDataOffsets :
                    \A e \in d.m_blockToDataOffsets : e[1] < n[1]
             /\ d.m_blockToDataOffsetsComplete
                    => /\ d'.m_blockToDataOffsets = d.m_blockToDataOffsets
                       /\ d'.m_blockToDataOffsetsComplete]_vars

\* C12: a seek into the second block of the two-block file has returned on a
\* decoder whose map is complete with its three entries.
C12_Witness ==
    /\ fileId = 3 /\ call.op = "seek" /\ call.arg = 8 /\ Ok(d)
    /\ d.m_lastHeader.item = 3
    /\ d.m_blockToDataOffsetsComplete /\ Cardinality(d.m_blockToDataOffsets) = 3

\* C12 as the spec states it: once an end-of-stream block has been observed, no
\* read, seek or blockOffsets call changes the map.
C12_FrozenAfterEos ==
    [][(DecodingCall(call') /\ \E k \in Range(d.parsed) : File[k].type = "eos")
          => d'.m_blockToDataOffsets = d.m_blockToDataOffsets]_vars

\* the first n elements of the sequence s, all of s when it is shorter
Take(s, n) == SubSeq(s, 1, Min(Len(s), n))

\* C13: a read( sink, nMax ) that returns delivers at most nMax bytes, returns
\* the number of bytes it delivered, and advances tell() by that number; the
\* bytes a read left in m_decodedBuffer (produced beyond its budget) are the
\* first bytes the next read delivers.
C13_ReadBudget ==
    [][(call'.op = "read" /\ Ok(d'))
          => /\ Len(d'.sink) <= call'.arg
             /\ d'.ret = Len(d'.sink)
             /\ Tell(d') = Tell(d) + d'.ret
             /\ (call.op = "read" /\ Ok(d))
                    => Take(d'.sink, Len(d.m_decodedBuffer))
                           = Take(d.m_decodedBuffer, call'.arg)]_vars

\* C13: a read has returned 0 at the end of the file, delivering nothing, while
\* the byte the read before it produced beyond its budget is still in
\* m_decodedBuffer.
C13_KeptBytesDropped ==
    /\ fileId = 2 /\ call.op = "read" /\ Ok(d) /\ Eof(d)
    /\ d.ret = 0 /\ d.sink = <<>> /\ Len(d.m_decodedBuffer) = 1

\* bit k of the bytes, counted from the most significant bit of the first byte
SourceBit(bytes, k) == BitsOf(bytes[(k \div 8) + 1], 8)[(k % 8) + 1]

\* the bits p .. p+n-1 of the bytes as a 32-bit value, the first bit the most
\* significant of the n
SourceBits(bytes, p, n) ==
    [i \in Bit32 |-> IF i > 32 - n THEN SourceBit(bytes, p + i - (32 - n) - 1) ELSE 0]

\* C14: a read of n bits (1 <= n <= 32) at position p returns the bits
\* p .. p+n-1 of the source, the first as the most significant of the n, and
\* leaves tell() at the position the reader was put at plus the sum of the
\* widths read since, which is p + n; when fewer than n bits remain, the read
\* throws std::domain_error.
C14_BitReaderRead ==
    [][brCall'.op = "read"
          => IF BitReader_tell(br) + brCall'.arg <= 8 * Len(brCall.source)
             THEN /\ Ok(br')
                  /\ br'.ret = SourceBits(brCall.source, BitReader_tell(br), brCall'.arg)
                  /\ BitReader_tell(br') = BitReader_tell(br) + brCall'.arg
                  /\ BitReader_tell(br') = brCall'.start + brCall'.consumed
             ELSE br'.err = "domain_error"]_vars

\* C14: a read of 32 bits that started with 7 bits in the bit buffer, and so
\* dumped 31 bits before it took the last byte, has returned at position 33.
C14_Witness ==
    /\ ~brCall.memory /\ Len(brCall.source) = 6
    /\ brCall.op = "read" /\ brCall.arg = 32 /\ Ok(br)
    /\ brCall.start = 0 /\ brCall.consumed = 33 /\ br.m_inbufBitCount = 7

\* C15: a reader of a file and a reader of a buffer alike can be made and can
\* seek to every bit offset k below the size of the source; after seek( k )
\* tell() returns k, and the read( n ) that follows returns the bits
\* k .. k+n-1 of the source.
C15_SeekFileAndBuffer ==
    /\ brCall.op = "new" => Ok(br)
    /\ (brCall.op = "seek" /\ brCall.arg < 8 * Len(brCall.source))
           => Ok(br) /\ BitReader_tell(br) = brCall.arg
    /\ (brCall.op = "read" /\ brCall.consumed = brCall.arg
            /\ brCall.start + brCall.arg <= 8 * Len(brCall.source))
           => Ok(br) /\ br.ret = SourceBits(brCall.source, brCall.start, brCall.arg)

\* C15: the reader made from a buffer has died in its constructor, which
\* calls fseek with the null FILE.
C15_BufferReaderDies ==
    brCall.memory /\ brCall.op = "new" /\ br.err = "NullFile"

\* C16: a data block whose origPtr is at or above the capacity of dbuf is
\* rejected by the test of origPtr in readBlockHeader: the parse of its header
\* does not get past that test to the mapping table, the selectors and the
\* lengths of the Huffman codes.
C16_OrigPtrRejectedInHeader ==
    hdr.origPtr >= DBUF_SIZE => hdr.phase = "thrown" /\ hdr.thrownAt = "origPtr"

\* C16: readBlockHeader has returned the header of a block whose origPtr is
\* the capacity of dbuf, with the lengths of both Huffman groups read.
C16_TablesReadAtCapacity ==
    /\ hdr.origPtr = DBUF_SIZE /\ hdr.phase = "returned" /\ Ok(hdr)
    /\ Len(hdr.lengths) = hdr.groupCount /\ hdr.groupCount = 2

\* C17: every selector of a header the parser has accepted is in
\* 0 .. groupCount-1, and no selector is stored for a code whose run of 1-bits
\* is groupCount or longer.
C17_SelectorsInRange ==
    /\ hdr.phase = "returned"
           => \A i \in 1..Len(hdr.selectors) : hdr.selectors[i] \in 0..(hdr.groupCount - 1)
    /\ \A i \in 1..Len(hdr.runs) : hdr.runs[i] < hdr.groupCount

\* C17: the parser has accepted a header in which a selector code of
\* groupCount 1-bits stored what the uninitialised mtfSymbol[groupCount] held.
C17_GarbageSelector ==
    /\ hdr.phase = "returned" /\ Ok(hdr) /\ hdr.groupCount = 2
    /\ hdr.runs = <<2>> /\ hdr.selectors = <<200>>

\* the running length at the entry of the loop for symbol si of group gi of
\* the description p: the start length and all the steps before
RECURSIVE SumSeq(_)
SumSeq(s) == IF s = <<>> THEN 0 ELSE Head(s) + SumSeq(Tail(s))

LengthAtEntry(p, gi, si) ==
    p.lens[gi].start
        + SumSeq(FlatMap(LAMBDA x : x, SubSeq(p.lens[gi].deltas, 1, si - 1)))

\* the running lengths the loop for that symbol goes through, the last being
\* the length to record
RunningLengths(p, gi, si) ==
    [k \in 1..(Len(p.lens[gi].deltas[si]) + 1) |->
        LengthAtEntry(p, gi, si) + SumSeq(SubSeq(p.lens[gi].deltas[si], 1, k - 1))]

\* C18: every length recorded is in 1..20.  A pass of the loop over the
\* symbols that records a length after a adjustments leaves the bit position
\* 2a+1 bits behind the one it started at; on the headers made to vary the
\* lengths, the pass records the last of the running lengths of the symbol's
\* code when all of them are in 1..20 and throws, recording nothing, when one
\* of them is 0 or above 20.
C18_LengthLoop ==
    [][hdr.phase = "length"
          => /\ \A i \in 1..Len(hdr'.length) : hdr'.length[i] \in 1..MAX_HUFCODE_BITS
             /\ \A g \in 1..Len(hdr'.lengths) : \A i \in 1..Len(hdr'.lengths[g]) :
                    hdr'.lengths[g][i] \in 1..MAX_HUFCODE_BITS
             /\ Ok(hdr')
                    => /\ BitReader_tell(hdr'.br)
                              = BitReader_tell(hdr.br) + 2 * hdr'.adjustments + 1
                       /\ hdr'.emittedAt = hdr'.lengthFrom + 2 * hdr'.adjustments + 1
             /\ hdrIn \in LengthHeaders
                    => IF \A k \in DOMAIN RunningLengths(hdrIn, Len(hdr.lengths) + 1,
                                                         Len(hdr.length) + 1) :
                              RunningLengths(hdrIn, Len(hdr.lengths) + 1,
                                             Len(hdr.length) + 1)[k]
                                  \in 1..MAX_HUFCODE_BITS
                       THEN /\ Ok(hdr')
                            /\ hdr'.huffman_groups
                                   = LengthAtEntry(hdrIn, Len(hdr.lengths) + 1,
                                                   Len(hdr.length) + 2)
                            /\ hdr'.adjustments
                                   = Len(hdrIn.lens[Len(hdr.lengths) + 1]
                                             .deltas[Len(hdr.length) + 1])
                       ELSE /\ hdr'.err = "logic_error" /\ hdr'.thrownAt = "length"
                            /\ hdr'.length = hdr.length /\ hdr'.lengths = hdr.lengths]_vars

\* C18: after the length 20, the length 18 was recorded after two adjustments,
\* in a header whose selector code is two bits long.
C18_Witness ==
    /\ hdrIn \in LengthHeaders /\ hdrIn.runs = <<1>> /\ hdrIn.lens[1].start = 19
    /\ hdr.phase = "length" /\ Ok(hdr) /\ hdr.adjustments = 2
    /\ hdr.length = <<20, 18>>

\* the smaller of x and one more than the capacity of dbuf
Saturate(x) == IF x > DBUF_SIZE THEN DBUF_SIZE + 1 ELSE x

\* the number of RUNA and RUNB symbols right before syms[n]
RECURSIVE RunBefore(_, _)
RunBefore(syms, n) ==
    IF n = 1 \/ syms[n - 1] > SYMBOL_RUNB THEN 0 ELSE 1 + RunBefore(syms, n - 1)

\* 2^r, saturating
WeightOf(r) == IF r >= 20 THEN DBUF_SIZE + 1 ELSE 2 ^ r

\* the number of bytes the first n symbols of syms stand for, saturating: a
\* literal is one byte, the r-th symbol of a run is 2^r times 1 or 2 copies
RECURSIVE SizeOf(_, _)
SizeOf(syms, n) ==
    IF n = 0 THEN 0
    ELSE Saturate(SizeOf(syms, n - 1)
                  + (IF syms[n] <= SYMBOL_RUNB
                     THEN Saturate((syms[n] + 1) * WeightOf(RunBefore(syms, n)))
                     ELSE IF syms[n] <= 3 THEN 1 ELSE 0))

SymbolsSize(syms) == SizeOf(syms, Len(syms))

\* C19: the symbol pass stores nothing outside dbuf and counts no more entries
\* than dbuf holds; it ends by returning or by throwing the data error, and
\* when it returns, dbuf holds every byte the symbols stand for: a run that
\* does not fit, however long, has thrown.
C19_DbufWithinCapacity ==
    /\ ~pass.outOfBounds
    /\ pass.dbufCount \in 0..DBUF_SIZE
    /\ pass.err \in {"none", "domain_error"}
    /\ pass.phase = "returned" => pass.dbufCount = SymbolsSize(pass.syms)

\* C19: after 31 RUNB symbols hh is -2, the test of dbufCount + hh against the
\* capacity passes and "while ( hh-- )" stores past the end of dbuf.
C19_StorePastDbuf ==
    /\ pass.syms = Repeat(1, 31) \o <<4>> /\ pass.build = "wrap"
    /\ pass.outOfBounds /\ pass.dbufCount = DBUF_SIZE /\ pass.phase = "crashed"


\* the link field of dbuf[k]
LinkOf(b, k) == b.dbuf[k + 1] \div 256

\* the byte at place k of the column of the stored bytes in sorted order
ColumnByte(stored, k) ==
    CHOOSE c \in {stored[i] : i \in 1..Len(stored)} :
        /\ Cardinality({i \in 1..Len(stored) : stored[i] < c}) <= k
        /\ k < Cardinality({i \in 1..Len(stored) : stored[i] <= c})

\* C20 (amended): after prepareBurrowsWheeler on a block of N >= 1 bytes with
\* origPtr < N, the low 8 bits of each dbuf[i], i < N, hold the byte the
\* symbol pass stored at i; the link fields are a permutation of 0..N-1, the
\* link of dbuf[k] being the index of the k-th entry of the stable sort of
\* those bytes; and the walk along the links from origPtr stays in 0..N-1.
C20_LinksPermute ==
    bw.phase = "prepared"
        => /\ \A i \in 0..(bw.writeCount - 1) : bw.dbuf[i + 1] % 256 = bw.stored[i + 1]
           /\ {LinkOf(bw, k) : k \in 0..(bw.writeCount - 1)} = 0..(bw.writeCount - 1)
           /\ \A k \in 0..(bw.writeCount - 1) :
                  bw.stored[LinkOf(bw, k) + 1] = ColumnByte(bw.stored, k)
           /\ \A j, k \in 0..(bw.writeCount - 1) :
                  (j < k /\ bw.stored[LinkOf(bw, j) + 1] = bw.stored[LinkOf(bw, k) + 1])
                      => LinkOf(bw, j) < LinkOf(bw, k)
           /\ bw.writePos \in 0..(bw.writeCount - 1)

\* C20: the walk has made all its steps on a block of four bytes, two of them
\* equal, that was not stored in sorted order.
C20_Witness ==
    /\ bw.phase = "prepared" /\ bw.stored = <<7, 0, 7, 255>> /\ bw.origPtr = 2
    /\ bw.steps = bw.writeCount

\* C20: after prepareBurrowsWheeler the low 8 bits of each dbuf[i], i < N, hold
\* the byte at place i of the sorted column, and the link fields are a
\* permutation of 0..N-1 that the walk from origPtr does not leave.
C20_SortedColumnInDbuf ==
    bw.phase = "prepared"
        => /\ \A i \in 0..(bw.writeCount - 1) :
                  bw.dbuf[i + 1] % 256 = ColumnByte(bw.stored, i)
           /\ {LinkOf(bw, k) : k \in 0..(bw.writeCount - 1)} = 0..(bw.writeCount - 1)
           /\ bw.writePos \in 0..(bw.writeCount - 1)

\* C22: after a seek( offset, SEEK_SET ) that returned, with offset between 0
\* and size(), tell() is offset.
C22_TellAfterSeek ==
    (/\ call.op = "seek" /\ call.origin = "SEEK_SET" /\ Ok(d)
     /\ d.m_blockToDataOffsetsComplete
     /\ 0 <= call.arg /\ call.arg <= Size(d).ret)
        => Tell(d) = call.arg

\* C22: seek( 1, SEEK_SET ) as the first call on the decoder of the two-byte
\* file has returned and tell() is 3: the two bytes of the decoding pass that
\* made the map and the one byte decoded to get to the target.
C22_StaleTell ==
    /\ call.op = "seek" /\ call.origin = "SEEK_SET" /\ call.arg = 1 /\ call.first
    /\ Ok(d) /\ PlainSize(File) = 2 /\ Tell(d) = 3

\* the bytes the output loop has put out so far: those delivered by the reads
\* and those still in m_decodedBuffer
Emitted == rle.out \o rle.d.m_decodedBuffer

\* C21: whatever the budgets of the reads, no read on the file of a chain
\* throws, the bytes the output loop has put out are the start of the text
\* the chain stands for (after four equal bytes the next byte of the chain is
\* a count of further copies, the byte after the count starts a new run, every
\* other byte is put out once), and when the block is finished they are the
\* whole of it.
C21_Rle2Reversed ==
    /\ Ok(rle.d)
    /\ Len(Emitted) <= Len(Rle2Decode(rle.chain))
    /\ Emitted = SubSeq(Rle2Decode(rle.chain), 1, Len(Emitted))
    /\ (rle.d.folds # <<>> \/ Eof(rle.d)) => Emitted = Rle2Decode(rle.chain)

\* C21: the chain 1 1 1 1 3 1 1 1 1 0 was read to the end of its block by
\* reads of two bytes, the third of which was interrupted inside the copies
\* of the count 3; the eleven bytes were delivered.
C21_Witness ==
    /\ rle.chain = <<1, 1, 1, 1, 3, 1, 1, 1, 1, 0>>
    /\ rle.reads = 6 /\ rle.arg = 2 /\ rle.d.folds # <<>>
    /\ rle.out = <<1, 1, 1, 1, 1, 1, 1, 1, 1, 1, 1>>

=============================================================================
